---- MODULE Spec2Model ----
(***************************************************************************)
(* Model of the IsherCare face analysis API (src/face_analysis_api).       *)
(*                                                                         *)
(* Numbers.  Scores and confidences are real numbers in the source; here   *)
(* they are integers in units of 1/One (One = 10000), so 0.3 is 3000.      *)
(* Ages are integers in units of 1/AgeOne years.  Pixel coordinates of     *)
(* landmarks are in 1/100 pixel.  processing_time and timestamp of the     *)
(* reports are wall-clock values and are left out of the report records.   *)
(*                                                                         *)
(* Python's None is the empty sequence, a present value v is <<v>>.        *)
(***************************************************************************)
EXTENDS Integers, Sequences, FiniteSets, TLC

VARIABLES
    d_image,      \* SpecDetect: the image given to the last detect_faces call
    d_report,     \* SpecDetect: the report that call returned (None before)
    a_in,         \* SpecAge: the indicators / detector outcome of the last estimate_age call
    a_report,     \* SpecAge: the report that call returned (None before)
    s_call,       \* SpecSkin: the last skin operation and its inputs
    s_out,        \* SpecSkin: the estimator output / report it returned
    s_params,     \* SpecSkin: the _create_skin_parameter calls it made, <<raw, FeatureScore>>
    s_ran,        \* SpecSkin: the estimators the call ran
    f_call,       \* facial features: the last operation and its inputs
    f_out,        \* facial features: what it returned
    x_call,       \* expression: the last operation and its inputs
    x_out,        \* expression: what it returned
    endpoint,     \* Spec: the endpoint handling the current request
    pc,           \* Spec: position of the handler
    files,        \* Spec: the uploaded files of the request
    loop_i,       \* Spec: batch loop index (1-based position of the next file)
    face_detection_result, \* Spec: comprehensive: result of the gate (None before)
    started,      \* Spec: comprehensive: analyses whose coroutine has started
    task_result,  \* Spec: comprehensive: analysis -> None, or <<report>> once it completed
    results,      \* Spec: batch: the results list
    reads,        \* Spec: positions of the files whose content was read
    invoked,      \* Spec: <<position, service>> pairs of the service calls made
    response,     \* Spec: the HTTP response (None while the handler runs)
    rng,          \* process: random.uniform calls made so far on the module-level generator
    tables,       \* process: the fields of the service objects
    calls         \* SpecProcess: the service calls made, with their reports

vars == <<d_image, d_report, a_in, a_report, s_call, s_out, s_params, s_ran,
          f_call, f_out, x_call, x_out,
          endpoint, pc, files, loop_i, face_detection_result, started,
          task_result, results, reads, invoked, response,
          rng, tables, calls>>

detectVars == <<d_image, d_report>>
ageVars    == <<a_in, a_report>>
skinVars   == <<s_call, s_out, s_params, s_ran>>
featVars   == <<f_call, f_out>>
exprVars   == <<x_call, x_out>>
httpVars   == <<endpoint, pc, files, loop_i, face_detection_result, started,
                task_result, results, reads, invoked, response>>
procVars   == <<rng, tables, calls>>

----------------------------------------------------------------------------
(* Generic helpers *)

None == <<>>
Some(v) == <<v>>

One == 100 * 100

Min2(a, b) == IF a <= b THEN a ELSE b
Max2(a, b) == IF a >= b THEN a ELSE b

\* All sequences over S of length 0..n.
SeqsUpTo(S, n) == UNION {[1..k -> S] : k \in 0..n}

\* round(v, d) with v in units where `step` is one unit of the last kept
\* decimal: the nearest multiple of step.  A value exactly half way between
\* two multiples is a binary float on one side or the other of the decimal
\* tie, so both neighbours are possible results.
RoundSet(v, step) ==
    LET lo == (v \div step) * step
        r  == v - lo
    IN  IF 2 * r < step THEN {lo}
        ELSE IF 2 * r > step THEN {lo + step}
        ELSE {lo, lo + step}

----------------------------------------------------------------------------
(* Bounds of the model *)

MaxFaces == 2       \* boxes one detector call returns

----------------------------------------------------------------------------
(* FaceDetectionService  (services/face_detection_service.py) *)

\* Detector boxes <<x, y, w, h>>; minSize=(30, 30) keeps sides >= 30.
BoxX    == {0, 5}
BoxSide == {30, 40, 200}
Boxes   == {<<x, 0, w, h>> : x \in BoxX, w \in BoxSide, h \in BoxSide}

\* <<width, height>> of the images tried: around the size-ratio thresholds
\* (9000 and 18000 pixels against boxes of 900..1600) and around the
\* resolution thresholds 320x240 and 640x480.
Dims == {<<100, 90>>, <<200, 90>>, <<319, 240>>, <<320, 240>>, <<640, 479>>, <<640, 480>>}

\* Mean grayscale brightness values tried, around 50 and 200.
Brightnesses == {49, 50, 128, 200, 201}

\* An image as the detection service sees it: its size, its mean gray
\* level, the boxes the cascade returns for it, and whether the OpenCV calls
\* accept it (a 2-D or 4-channel array makes cvtColor raise).
BoxInside(f, wh) == f[1] + f[3] <= wh[1] /\ f[2] + f[4] <= wh[2]

DetectImages ==
    {im \in [width_height : Dims, brightness : Brightnesses,
             faces : SeqsUpTo(Boxes, MaxFaces), cv_ok : BOOLEAN] :
        \A i \in 1..Len(im.faces) : BoxInside(im.faces[i], im.width_height)}

BoxArea(f) == f[3] * f[4]

Pt(x100, y100) == [x |-> x100, y |-> y100]

_extract_basic_landmarks(face_bbox) ==
    LET x == 100 * face_bbox.x
        y == 100 * face_bbox.y
        w == face_bbox.width
        h == face_bbox.height
    IN  [left_eye  |-> <<Pt(x + 30 * w, y + 40 * h)>>,
         right_eye |-> <<Pt(x + 70 * w, y + 40 * h)>>,
         nose      |-> <<Pt(x + 50 * w, y + 55 * h), Pt(x + 45 * w, y + 60 * h),
                         Pt(x + 55 * w, y + 60 * h)>>,
         mouth     |-> <<Pt(x + 35 * w, y + 75 * h), Pt(x + 50 * w, y + 78 * h),
                         Pt(x + 65 * w, y + 75 * h)>>,
         jawline   |-> <<Pt(x + 10 * w, y + 60 * h), Pt(x + 20 * w, y + 80 * h),
                         Pt(x + 50 * w, y + 95 * h), Pt(x + 80 * w, y + 80 * h),
                         Pt(x + 90 * w, y + 60 * h)>>,
         eyebrows  |-> <<Pt(x + 25 * w, y + 30 * h), Pt(x + 35 * w, y + 25 * h),
                         Pt(x + 65 * w, y + 25 * h), Pt(x + 75 * w, y + 30 * h)>>,
         face_outline |-> <<Pt(x, y + 20 * h), Pt(x, y + 80 * h),
                            Pt(x + 20 * w, y + 100 * h), Pt(x + 80 * w, y + 100 * h),
                            Pt(x + 100 * w, y + 80 * h), Pt(x + 100 * w, y + 20 * h),
                            Pt(x + 80 * w, y), Pt(x + 20 * w, y)>>]

\* A max that keeps the last of several boxes of maximal area.
LastLargestBox(faces) ==
    faces[CHOOSE i \in 1..Len(faces) :
            /\ \A j \in 1..Len(faces) : BoxArea(faces[j]) <= BoxArea(faces[i])
            /\ \A j \in (i + 1)..Len(faces) : BoxArea(faces[j]) < BoxArea(faces[i])]

\* max(faces, key=lambda f: f[2] * f[3]): Python's max keeps the first
\* element whose key is maximal.
largest_box(faces) ==
    faces[CHOOSE i \in 1..Len(faces) :
            /\ \A j \in 1..Len(faces) : BoxArea(faces[j]) <= BoxArea(faces[i])
            /\ \A j \in 1..(i - 1) : BoxArea(faces[j]) < BoxArea(faces[i])]

SizeFactorLow(face_area, image_area) ==
    IF 10 * face_area >= image_area THEN 3000
    ELSE IF 20 * face_area >= image_area THEN 2000
    ELSE 1000
\* The size factor without the +0.1 of the smallest faces.
SizeFactorNoFloor(face_area, image_area) ==
    IF 10 * face_area > image_area THEN 3000
    ELSE IF 20 * face_area > image_area THEN 2000
    ELSE 0
\* size_ratio > 0.1 -> +0.3, > 0.05 -> +0.2, else +0.1
SizeFactor(face_area, image_area) ==
    IF 10 * face_area > image_area THEN 3000
    ELSE IF 20 * face_area > image_area THEN 2000
    ELSE 1000

ResolutionFactor(width, height) ==
    IF width >= 640 /\ height >= 480 THEN 1000
    ELSE IF width >= 320 /\ height >= 240 THEN 500
    ELSE 0

BrightnessFactor(brightness) ==
    IF 50 <= brightness /\ brightness <= 200 THEN 1000 ELSE 0

\* _calculate_confidence without its early return for an empty detection.
ConfidenceWithoutEmptyGuard(faces, image) ==
    5000 + (IF Len(faces) = 0 THEN 0
            ELSE SizeFactor(BoxArea(largest_box(faces)),
                            image.width_height[2] * image.width_height[1]))
         + ResolutionFactor(image.width_height[1], image.width_height[2])
         + BrightnessFactor(image.brightness)

_calculate_confidence(faces, image) ==
    IF Len(faces) = 0 THEN 0
    ELSE LET largest_face == largest_box(faces)
             face_area    == BoxArea(largest_face)
             image_area   == image.width_height[2] * image.width_height[1]
             confidence   == 5000
                             + SizeFactor(face_area, image_area)
                             + ResolutionFactor(image.width_height[1], image.width_height[2])
                             + BrightnessFactor(image.brightness)
         IN  Min2(One, confidence)

_generate_message(face_count, confidence) ==
    IF face_count = 0 THEN "No face detected"
    ELSE IF face_count = 1
         THEN IF confidence >= 8000 THEN "Face detected with high confidence"
              ELSE IF confidence >= 6000 THEN "Face detected with good confidence"
              ELSE "Face detected with low confidence"
    ELSE "Multiple faces detected"

BBox(f) == [x |-> f[1], y |-> f[2], width |-> f[3], height |-> f[4]]

\* The report of the except branch of detect_faces.
detect_faces_failed ==
    [face_detection |->
        [has_face |-> FALSE, face_count |-> 0, confidence |-> 0,
         bounding_boxes |-> <<>>, landmarks |-> None,
         message |-> "Face detection failed"]]

detect_faces(image) ==
    IF ~image.cv_ok THEN detect_faces_failed
    ELSE
    LET faces       == image.faces
        faces_found == [i \in 1..Len(faces) |-> BBox(faces[i])]
        landmarks_data ==
            IF Len(faces) > 0
            THEN Some(_extract_basic_landmarks(BBox(largest_box(faces))))
            ELSE None
        confidence  == _calculate_confidence(faces, image)
        message     == _generate_message(Len(faces_found), confidence)
    IN  [face_detection |->
            [has_face |-> Len(faces_found) > 0,
             face_count |-> Len(faces_found),
             confidence |-> confidence,
             bounding_boxes |-> faces_found,
             landmarks |-> landmarks_data,
             message |-> message]]

\* One call of detect_faces on any image.
DetectFaces ==
    /\ d_report = None
    /\ \E image \in DetectImages :
          /\ d_image' = Some(image)
          /\ d_report' = Some(detect_faces(image))
    /\ UNCHANGED <<ageVars, skinVars, httpVars, featVars, exprVars, procVars>>

----------------------------------------------------------------------------
(* AgeEstimationService  (services/age_estimation_service.py) *)

\* Ages are in units of 1/AgeOne years; an indicator x (in 1/One) times a
\* range of n years is x * n * (AgeOne / One) age units.
AgeOne == 1000 * 1000
Years(n) == n * AgeOne
\* An indicator that adds up to twice its range of years.
IndicatorYearsDoubled(x, n) == 2 * x * n * (AgeOne \div One)
IndicatorYears(x, n) == x * n * (AgeOne \div One)

\* Values of the six indicators handed to _calculate_weighted_age.  The
\* indicator functions return min(1.0, .) of unbounded-below expressions for
\* the eye area and the skin tone; values outside [0, 1] are tried for all
\* six, far enough to reach both clamps of the weighted age.
WrinkleScores  == {-10000, 0, 5000, 10000, 60000}
TextureScores  == {0, 3000, 10000}
EyeAreaScores  == {-4900, 0, 2000, 10000}
VolumeScores   == {0, 2000, 10000}
HairScores     == {0, 1200, 10000}
SkinToneScores == {-32000, 0, 10000, 15000}

\* What one estimate_age call meets: whether the cascade (scale 1.3) finds
\* a face, whether an analysis step raises, and the six indicator scores.
AgeInputs ==
    [face : BOOLEAN, raises : BOOLEAN,
     wrinkle_score : WrinkleScores, texture_score : TextureScores,
     eye_area_score : EyeAreaScores, volume_score : VolumeScores,
     hair_score : HairScores, skin_tone_score : SkinToneScores]

\* age * weight for a weight of pct/100.  Every indicator age is a multiple
\* of 100 age units, so the division is exact.
Weighted(age, pct) == (age \div 100) * pct

\* The weighted sum of the six indicator ages, before the clamp.
weighted_age(wrinkle_score, texture_score, eye_area_score, volume_score, hair_score, skin_tone_score) ==
    LET base_age      == Years(25)
        wrinkle_age   == base_age + IndicatorYears(wrinkle_score, 40)
        texture_age   == base_age + IndicatorYears(texture_score, 30)
        eye_age       == base_age + IndicatorYears(eye_area_score, 35)
        volume_age    == base_age + IndicatorYears(volume_score, 25)
        hair_age      == base_age + IndicatorYears(hair_score, 30)
        skin_tone_age == base_age + IndicatorYears(skin_tone_score, 20)
    IN  Weighted(wrinkle_age, 30) + Weighted(texture_age, 20)
        + Weighted(eye_age, 15) + Weighted(volume_age, 15)
        + Weighted(hair_age, 10) + Weighted(skin_tone_age, 10)

\* _calculate_weighted_age returning the weighted sum without the clamp.
WeightedAgeUnclamped(wrinkle_score, texture_score, eye_area_score, volume_score, hair_score, skin_tone_score) ==
    weighted_age(wrinkle_score, texture_score, eye_area_score,
                 volume_score, hair_score, skin_tone_score)

_calculate_weighted_age(wrinkle_score, texture_score, eye_area_score, volume_score, hair_score, skin_tone_score) ==
    Max2(Years(18), Min2(Years(80),
        weighted_age(wrinkle_score, texture_score, eye_area_score,
                     volume_score, hair_score, skin_tone_score)))

_calculate_age_range(estimated_age) ==
    LET margin == Years(5)
    IN  [min_age |-> Max2(Years(18), estimated_age - margin),
         max_age |-> Min2(Years(80), estimated_age + margin),
         most_likely |-> estimated_age]

\* floor of the square root, by bisection on [lo, hi].
RECURSIVE ISqrtIn(_, _, _)
ISqrtIn(n, lo, hi) ==
    IF lo >= hi THEN lo
    ELSE LET mid == (lo + hi + 1) \div 2
         IN  IF mid * mid <= n THEN ISqrtIn(n, mid, hi) ELSE ISqrtIn(n, lo, mid - 1)
ISqrt(n) == ISqrtIn(n, 0, 40000)

\* np.std of the six scores (population standard deviation), in 1/One.
\* The deviations from the mean are taken in units of 0.001 to keep the
\* squares within 32 bits, so the result is exact to about 0.001.
ScoreStd(scores) ==
    LET sum  == scores[1] + scores[2] + scores[3] + scores[4] + scores[5] + scores[6]
        d(i) == (6 * scores[i] - sum) \div 60
        sq   == d(1) * d(1) + d(2) * d(2) + d(3) * d(3)
                + d(4) * d(4) + d(5) * d(5) + d(6) * d(6)
    IN  10 * ISqrt(sq \div 6)

\* AgeEstimationService._calculate_confidence
age_confidence(wrinkle_score, texture_score, eye_area_score, volume_score, hair_score, skin_tone_score) ==
    LET scores == <<wrinkle_score, texture_score, eye_area_score,
                    volume_score, hair_score, skin_tone_score>>
        score_std  == ScoreStd(scores)
        confidence == One - Min2(One, score_std)
    IN  Max2(3000, confidence)

_determine_age_group(estimated_age) ==
    IF estimated_age < Years(25) THEN "Young Adult (18-24)"
    ELSE IF estimated_age < Years(35) THEN "Adult (25-34)"
    ELSE IF estimated_age < Years(45) THEN "Middle-aged (35-44)"
    ELSE IF estimated_age < Years(55) THEN "Mature (45-54)"
    ELSE IF estimated_age < Years(65) THEN "Senior (55-64)"
    ELSE "Elderly (65+)"

_get_default_age_estimation ==
    [age_estimation |->
        [estimated_age |-> Years(30),
         age_range |-> [min_age |-> Years(25), max_age |-> Years(35),
                        most_likely |-> Years(30)],
         confidence |-> 0,
         age_group |-> "Adult (25-34)"]]

\* The reports estimate_age can return for an input: the default when no
\* face is found or a step raises, else the computed report, whose
\* estimated_age is rounded to one decimal and confidence to three.
estimate_age(in) ==
    IF in.raises \/ ~in.face THEN {_get_default_age_estimation}
    ELSE
    LET estimated_age ==
            _calculate_weighted_age(in.wrinkle_score, in.texture_score,
                in.eye_area_score, in.volume_score, in.hair_score, in.skin_tone_score)
        age_range  == _calculate_age_range(estimated_age)
        confidence ==
            age_confidence(in.wrinkle_score, in.texture_score,
                in.eye_area_score, in.volume_score, in.hair_score, in.skin_tone_score)
        age_group  == _determine_age_group(estimated_age)
    IN  {[age_estimation |->
            [estimated_age |-> ea, age_range |-> age_range,
             confidence |-> c, age_group |-> age_group]] :
         ea \in RoundSet(estimated_age, AgeOne \div 10), c \in RoundSet(confidence, 10)}

\* One call of estimate_age.
EstimateAge ==
    /\ a_report = None
    /\ \E in \in AgeInputs : \E report \in estimate_age(in) :
          /\ a_in' = Some(in)
          /\ a_report' = Some(report)
    /\ UNCHANGED <<detectVars, skinVars, httpVars, featVars, exprVars, procVars>>

----------------------------------------------------------------------------
(* SkinAnalysisService  (services/skin_analysis_service.py) *)

\* random.uniform(a, b): the two ends, the middle, and the values just
\* off zero that lie in the interval.
Uniform(a, b) == {a, (a + b) \div 2, b} \cup {x \in {-4, 4} : a <= x /\ x <= b}

Clamp(lo, hi, v) == Max2(lo, Min2(hi, v))

\* a * b for two quantities in 1/One.
Mul(a, b) == (a * b) \div One
\* v * p / 10 for a one-decimal factor p/10 (0.3 is 3).
Tenths(v, p) == (v * p) \div 10

\* How an estimator call goes: on skin pixels, on a mask with no pixel
\* selected, or into its except branch.
Modes == {"normal", "empty", "error"}

\* The measured quantities tried (in 1/One): multiples of 0.01.
Unit01     == {0, 2500, 5000, 10000}   \* quantities in [0, 1]
Spread     == {-10000, 0, 5000, 10000} \* 1 - std/64, in [-1, 1]
Unbounded  == {0, 4000, 20000}         \* means divided by a constant

\* TextureAnalyzer.analyze_texture.  m: roughness = mean gradient / 100,
\* brightness = mean gray / 128, uniformity = 1 - std/64.  j: three draws.
analyze_texture(mode, m, j) ==
    IF mode = "normal"
    THEN LET roughness == Clamp(1000, 8000, m.roughness + j[1])
             oiliness  == Min2(8000, Max2(1000,
                              Mul(m.brightness, One - m.uniformity) + j[2]))
         IN  {[score |-> sc, roughness |-> ro, oiliness |-> oi, confidence |-> 7000] :
                sc \in RoundSet(One - roughness, 10), ro \in RoundSet(roughness, 10),
                oi \in RoundSet(oiliness, 10)}
    ELSE {[score |-> 5000 + j[1], roughness |-> 4000 + j[2],
           oiliness |-> 3000 + j[3], confidence |-> 3000]}

TextureMeasures ==
    [roughness : Unbounded, brightness : {0, 10000, 19900}, uniformity : Spread]
TextureDraws == {<<a, b, c>> : a \in Uniform(-1000, 1000),
                               b \in Uniform(-1000, 1000), c \in {-1000, 0, 1000}}

\* PoreAnalyzer.analyze_pores.  m = mean top-hat residual / 255.
analyze_pores(mode, m, j) ==
    IF mode = "normal"
    THEN {[severity |-> sv, confidence |-> 6000] :
            sv \in RoundSet(Min2(7000, Max2(1000, 2 * m + j)), 10)}
    ELSE {[severity |-> 3000 + j, confidence |-> 3000]}

\* WrinkleAnalyzer.analyze_wrinkles.  m = mean |Laplacian| / 100.
analyze_wrinkles(mode, m, j) ==
    IF mode = "normal"
    THEN {[severity |-> sv, confidence |-> 6000] :
            sv \in RoundSet(Min2(6000, Max2(1000, m + j)), 10)}
    ELSE {[severity |-> 2500 + j, confidence |-> 3000]}

\* AcneAnalyzer.analyze_acne.  m = reddish fraction of the mask.
analyze_acne(mode, m, j) ==
    IF mode = "normal"
    THEN {[severity |-> sv, confidence |-> 5000] :
            sv \in RoundSet(Min2(6000, Max2(1000, 5 * m + j)), 10)}
    ELSE {[severity |-> 2000 + j, confidence |-> 3000]}

\* ColorAnalyzer._determine_undertone
_determine_undertone(color) ==
    IF color[1] > color[2] /\ color[1] > color[3] THEN "Warm"
    ELSE IF color[3] > color[1] /\ color[3] > color[2] THEN "Cool"
    ELSE "Neutral"

\* ColorAnalyzer._determine_tone_category (brightness = mean of r, g, b)
_determine_tone_category(color) ==
    LET sum == color[1] + color[2] + color[3]
    IN  IF sum > 3 * 200 THEN "Very Fair"
        ELSE IF sum > 3 * 160 THEN "Fair"
        ELSE IF sum > 3 * 120 THEN "Medium"
        ELSE IF sum > 3 * 80 THEN "Tan"
        ELSE "Dark"

\* ColorAnalyzer._calculate_redness.  ratio = mean r / (mean g + mean b);
\* its own except branch returns 0.3 + a draw.
_calculate_redness(ratio, j, raises) ==
    IF raises THEN {3000 + j}
    ELSE RoundSet(Max2(1000, Min2(8000, 2 * (ratio - 8000) + j)), 10)

_get_default_color_analysis(j) ==
    [dominant_color_rgb |-> <<200, 168, 130>>,
     dominant_color_hex |-> "#C8A882",
     undertone |-> "Neutral", tone_category |-> "Medium",
     redness |-> 3000 + j, confidence |-> 3000]

\* ColorAnalyzer.analyze_skin_color.  m: color = dominant cluster centre,
\* ratio, redness_raises.  The hex string is carried as "hex" of the rgb.
analyze_skin_color(mode, m, j) ==
    IF mode = "normal"
    THEN {[dominant_color_rgb |-> m.color, dominant_color_hex |-> "hex(rgb)",
           undertone |-> _determine_undertone(m.color),
           tone_category |-> _determine_tone_category(m.color),
           redness |-> rd, confidence |-> 8000] :
            rd \in _calculate_redness(m.ratio, j, m.redness_raises)}
    ELSE {_get_default_color_analysis(j)}

ColorMeasures ==
    [color : {<<200, 160, 130>>, <<90, 90, 120>>, <<60, 70, 60>>},
     ratio : {0, 8000, 9500, 20000}, redness_raises : BOOLEAN]

\* SkinAnalysisService._analyze_moisture.  m: brightness = mean L / 255,
\* uniformity = 1 - std L / 64.
_analyze_moisture(mode, m, j) ==
    IF mode = "empty" THEN {[level |-> 4000, confidence |-> 3000]}
    ELSE IF mode = "error" THEN {[level |-> 4000 + j, confidence |-> 3000]}
    ELSE {[level |-> lv, confidence |-> 7000] :
            lv \in RoundSet(Clamp(2000, 8000,
                     3000 + Tenths(m.brightness, 3) + Tenths(m.uniformity, 2) + j), 10)}

\* SkinAnalysisService._analyze_radiance.  m: brightness, contrast = std L / 64.
_analyze_radiance(mode, m, j) ==
    IF mode = "empty" THEN {[score |-> 5000, confidence |-> 3000]}
    ELSE IF mode = "error" THEN {[score |-> 5000 + j, confidence |-> 3000]}
    ELSE {[score |-> sc, confidence |-> 7000] :
            sc \in RoundSet(Clamp(1000, 9000,
                     2000 + Tenths(m.brightness, 4) + Tenths(m.contrast, 2) + j), 10)}

\* SkinAnalysisService._analyze_firmness.  m = mean gradient / 50.
_analyze_firmness(mode, m, j) ==
    IF mode = "empty" THEN {[score |-> 6000, confidence |-> 3000]}
    ELSE IF mode = "error" THEN {[score |-> 6000 + j, confidence |-> 3000]}
    ELSE {[score |-> sc, confidence |-> 6000] :
            sc \in RoundSet(Clamp(2000, 8000,
                     3000 + Tenths(One - Min2(One, m), 4) + j), 10)}

\* SkinAnalysisService._analyze_age_spots.  m = dark-spot fraction of the mask.
_analyze_age_spots(mode, m, j) ==
    IF mode = "empty" THEN {[severity |-> 3000, confidence |-> 3000]}
    ELSE IF mode = "error" THEN {[severity |-> 3000 + j, confidence |-> 3000]}
    ELSE {[severity |-> sv, confidence |-> 6000] :
            sv \in RoundSet(Min2(7000, 2 * m + j), 10)}

\* SkinAnalysisService._analyze_dark_circles / _analyze_eye_bags: a constant
\* plus a draw, whatever the image.
_analyze_dark_circles(j) == 2000 + j
_analyze_eye_bags(j) == 1500 + j

\* dict.get(key, default)
Get(d, key, default) == IF key \in DOMAIN d THEN d[key] ELSE default

\* SkinAnalysisService._calculate_overall_health; j is the draw.
_calculate_overall_health(texture, pore, wrinkle, acne, moisture, radiance, j) ==
    LET score == ( Get(texture, "score", 5000) * 15
                 + (One - Get(pore, "severity", 5000)) * 15
                 + (One - Get(wrinkle, "severity", 5000)) * 20
                 + (One - Get(acne, "severity", 5000)) * 20
                 + Get(moisture, "level", 5000) * 15
                 + Get(radiance, "score", 5000) * 15 ) \div 100
    IN  RoundSet(Max2(1000, Min2(9000, score + j)), 10)

\* SkinAnalysisService._generate_recommendations
_generate_recommendations(texture, pore, wrinkle, acne, moisture, radiance, color) ==
    LET recs ==
            (IF Get(acne, "severity", 0) > 4000
             THEN <<"Use salicylic acid cleanser for acne-prone skin",
                    "Apply spot treatments with benzoyl peroxide">> ELSE <<>>)
         \o (IF Get(wrinkle, "severity", 0) > 4000
             THEN <<"Use retinol serum for anti-aging",
                    "Apply peptide moisturizer for firmness">> ELSE <<>>)
         \o (IF Get(moisture, "level", 5000) < 4000
             THEN <<"Use hyaluronic acid serum for hydration",
                    "Apply rich moisturizer twice daily">> ELSE <<>>)
         \o (IF Get(pore, "severity", 0) > 4000
             THEN <<"Use niacinamide serum to minimize pores",
                    "Try clay masks weekly for pore cleansing">> ELSE <<>>)
         \o (IF Get(radiance, "score", 5000) < 4000
             THEN <<"Use vitamin C serum for brightness",
                    "Try gentle exfoliating treatments">> ELSE <<>>)
         \o <<"Apply broad-spectrum SPF 30+ daily">>
    IN  SubSeq(recs, 1, Min2(6, Len(recs)))

\* SkinAnalysisService._determine_skin_type
\* The same rules with Combination tested before Oily.
SkinTypeCombinationFirst(texture, pore, moisture, acne) ==
    LET oiliness      == Get(texture, "oiliness", 5000)
        moisture_lvl  == Get(moisture, "level", 5000)
        acne_severity == Get(acne, "severity", 5000)
    IN  IF oiliness > 6000 /\ moisture_lvl < 4000 THEN "Combination"
        ELSE IF oiliness > 6000 /\ acne_severity > 4000 THEN "Oily"
        ELSE IF oiliness < 3000 /\ moisture_lvl < 4000 THEN "Dry"
        ELSE IF acne_severity > 5000 THEN "Sensitive"
        ELSE "Normal"

_determine_skin_type(texture, pore, moisture, acne) ==
    LET oiliness      == Get(texture, "oiliness", 5000)
        moisture_lvl  == Get(moisture, "level", 5000)
        acne_severity == Get(acne, "severity", 5000)
    IN  IF oiliness > 6000 /\ acne_severity > 4000 THEN "Oily"
        ELSE IF oiliness < 3000 /\ moisture_lvl < 4000 THEN "Dry"
        ELSE IF oiliness > 6000 /\ moisture_lvl < 4000 THEN "Combination"
        ELSE IF acne_severity > 5000 THEN "Sensitive"
        ELSE "Normal"

\* Severity bands with both thresholds inclusive on the lower band.
SeverityInclusive(ui_score) ==
    IF ui_score <= 3000 THEN "Low"
    ELSE IF ui_score <= 7000 THEN "Medium"
    ELSE "High"

\* The severity of _create_skin_parameter; ui_score in 1/100 of a point.
Severity(ui_score) ==
    IF ui_score < 3000 THEN "Low"
    ELSE IF ui_score < 7000 THEN "Medium"
    ELSE "High"

\* SkinAnalysisService._create_skin_parameter.  raw_score * 100 in units of
\* 1/100 of a point is numerically raw_score in 1/One.  The records it can
\* return: raw_score rounded to 3 decimals, ui_score and area_percentage to 1.
_create_skin_parameter(raw_score) ==
    LET ui_score == Min2(100 * 100, Max2(0, raw_score))
        severity == Severity(ui_score)
    IN  {[raw_score |-> rr, ui_score |-> ur, severity |-> severity,
          area_percentage |-> ar, confidence |-> 8000] :
            rr \in RoundSet(raw_score, 10), ur \in RoundSet(ui_score, 10),
            ar \in RoundSet(raw_score, 10)}

\* The eleven estimators analyze_skin runs in STEP 6.
Estimators ==
    {"analyze_texture", "analyze_pores", "analyze_wrinkles", "analyze_acne",
     "analyze_skin_color", "_analyze_moisture", "_analyze_radiance",
     "_analyze_firmness", "_analyze_age_spots", "_analyze_dark_circles",
     "_analyze_eye_bags"}

\* STEP 5 of analyze_skin: less than 5% of the pixels are skin.
InsufficientCoverageInclusive(skin_coverage) == skin_coverage <= 500
insufficient_coverage(skin_coverage) == skin_coverage < 500

\* The FeatureScore of a raw score 0.0 (rounding leaves a single record).
ZeroParameter == CHOOSE fs \in _create_skin_parameter(0) : TRUE

\* SkinAnalysisService._get_no_face_analysis_result
_get_no_face_analysis_result ==
    [skin_analysis |->
        [has_face |-> FALSE, face_detected |-> FALSE, skin_coverage |-> 0,
         skin_type |-> "Unknown", overall_health |-> 0,
         skin_tone |-> [category |-> "Unknown", hex |-> "#000000",
                        rgb |-> [r |-> 0, g |-> 0, b |-> 0], undertone |-> "Unknown"],
         hd_redness |-> ZeroParameter, hd_oiliness |-> ZeroParameter,
         hd_age_spots |-> ZeroParameter, hd_radiance |-> ZeroParameter,
         hd_moisture |-> ZeroParameter, hd_dark_circles |-> ZeroParameter,
         hd_eye_bags |-> ZeroParameter, hd_firmness |-> ZeroParameter,
         hd_texture |-> ZeroParameter, hd_acne |-> ZeroParameter,
         hd_pores |-> ZeroParameter, hd_wrinkles |-> ZeroParameter,
         recommended_treatments |-> <<>>,
         message |-> "No face detected in the image. Please capture a clear image of your face for analysis."]]

\* The twelve hd_* entries of the result dict of analyze_skin in the order
\* they are evaluated: <<analysis, key to look up>>.  The two float scores
\* (dark circles, eye bags) are held under the key "value".
HdNames ==
    <<"hd_redness", "hd_oiliness", "hd_age_spots", "hd_radiance", "hd_moisture",
      "hd_dark_circles", "hd_eye_bags", "hd_firmness", "hd_texture", "hd_acne",
      "hd_pores", "hd_wrinkles">>
HdItems(a) ==
    << <<a.color, "redness">>, <<a.texture, "oiliness">>,
       <<a.age_spots, "score">>, <<a.radiance, "score">>,
       <<a.moisture, "score">>, <<[value |-> a.dark_circles], "value">>,
       <<[value |-> a.eye_bags], "value">>, <<a.firmness, "score">>,
       <<a.texture, "score">>, <<a.acne, "score">>,
       <<a.pores, "score">>, <<a.wrinkles, "score">> >>

\* Position of the first entry whose key is missing from its analysis (the
\* subscript raises KeyError there); 0 when every key is present.
FirstKeyError(items) ==
    LET missing == {i \in 1..Len(items) : items[i][2] \notin DOMAIN items[i][1]}
    IN  IF missing = {} THEN 0
        ELSE CHOOSE i \in missing : \A k \in missing : i <= k

\* The sequences of FeatureScores _create_skin_parameter can return for the
\* first n entries.
RECURSIVE ParamSeqs(_, _)
ParamSeqs(items, n) ==
    IF n = 0 THEN {<<>>}
    ELSE {Append(ps, fs) : ps \in ParamSeqs(items, n - 1),
                           fs \in _create_skin_parameter(items[n][1][items[n][2]])}

\* The _create_skin_parameter calls behind a sequence of FeatureScores.
Created(items, ps) == {<<items[i][1][items[i][2]], ps[i]>> : i \in 1..Len(ps)}

\* SkinAnalysisService.analyze_skin.  in: face_detected (the cascade found a
\* face), raises (a step before the estimators raises), coverage (skin
\* pixels / all pixels), a (the estimator outputs, read only past the
\* gates).  Returns the possible [report, created], created being the
\* <<raw score, FeatureScore>> pairs of the _create_skin_parameter calls.
analyze_skin(in) ==
    LET default == [report |-> _get_no_face_analysis_result,
                    created |-> {<<0, ZeroParameter>>}, ran |-> {}]
    IN
    IF in.raises \/ ~in.face_detected \/ insufficient_coverage(in.coverage)
    THEN {default}
    ELSE
    LET a     == in.a
        items == HdItems(a)
        k     == FirstKeyError(items)
        overall_health ==
            _calculate_overall_health(a.texture, a.pores, a.wrinkles, a.acne,
                                      a.moisture, a.radiance, a.health_draw)
        recommendations ==
            _generate_recommendations(a.texture, a.pores, a.wrinkles, a.acne,
                                      a.moisture, a.radiance, a.color)
        skin_type == _determine_skin_type(a.texture, a.pores, a.moisture, a.acne)
        skin_tone == [category  |-> Get(a.color, "tone_category", "Medium"),
                      hex       |-> Get(a.color, "dominant_color_hex", "#C8A882"),
                      rgb       |-> Get(a.color, "dominant_color_rgb", [r |-> 200, g |-> 168, b |-> 130]),
                      undertone |-> Get(a.color, "undertone", "Neutral")]
    IN
    IF k # 0
    THEN \* KeyError at entry k: the except branch returns the no-face result
         {[report |-> default.report,
           created |-> Created(items, ps) \cup default.created,
           ran |-> Estimators] :
            ps \in ParamSeqs(items, k - 1)}
    ELSE {[report |->
            [skin_analysis |->
              [has_face |-> TRUE, face_detected |-> TRUE,
               skin_coverage |-> in.coverage,
               skin_type |-> skin_type, overall_health |-> oh,
               skin_tone |-> skin_tone,
               hd_redness |-> ps[1], hd_oiliness |-> ps[2], hd_age_spots |-> ps[3],
               hd_radiance |-> ps[4], hd_moisture |-> ps[5], hd_dark_circles |-> ps[6],
               hd_eye_bags |-> ps[7], hd_firmness |-> ps[8], hd_texture |-> ps[9],
               hd_acne |-> ps[10], hd_pores |-> ps[11], hd_wrinkles |-> ps[12],
               recommended_treatments |-> recommendations]],
           created |-> Created(items, ps), ran |-> Estimators] :
            oh \in overall_health, ps \in ParamSeqs(items, 12)}

\* The random.uniform calls one estimator call makes: the texture analyzer
\* draws twice when it computes and three times for its default, the four
\* _analyze_* estimators return their empty-mask default without a draw,
\* every other path draws once.
EstimatorDraws(op, mode) ==
    IF op = "analyze_texture" THEN (IF mode = "normal" THEN 2 ELSE 3)
    ELSE IF mode = "empty" /\ op \in {"_analyze_moisture", "_analyze_radiance",
                                       "_analyze_firmness", "_analyze_age_spots"}
    THEN 0
    ELSE 1

\* The random.uniform calls analyze_skin makes: none up to the gates; past
\* them those of the texture analyzer (which reports confidence 0.7 when it
\* computes), one for each of the ten other estimators and one in
\* _calculate_overall_health.
skin_draws(in) ==
    IF in.raises \/ ~in.face_detected \/ insufficient_coverage(in.coverage) THEN 0
    ELSE (IF in.a.texture.confidence = 7000 THEN 2 ELSE 3) + 10 + 1

\* Estimator outputs tried.
TextureOutputs ==
    UNION {analyze_texture(mode, m, j) :
             mode \in {"normal", "error"}, m \in TextureMeasures, j \in TextureDraws}
ColorOutputs ==
    UNION {analyze_skin_color(mode, m, j) :
             mode \in {"normal", "error"}, m \in ColorMeasures, j \in Uniform(-1000, 1000)}

Pick(S) == CHOOSE x \in S : TRUE

\* The outputs of the other estimators, taken together: a smooth bright
\* skin, a rough dark one, and every estimator in its except branch.
OtherOutputs ==
    {[pores      |-> Pick(analyze_pores("normal", 0, 0)),
      wrinkles   |-> Pick(analyze_wrinkles("normal", 0, 0)),
      acne       |-> Pick(analyze_acne("normal", 0, 0)),
      moisture   |-> Pick(_analyze_moisture("normal", [brightness |-> 10000, uniformity |-> 10000], 0)),
      radiance   |-> Pick(_analyze_radiance("normal", [brightness |-> 10000, contrast |-> 5000], 0)),
      firmness   |-> Pick(_analyze_firmness("normal", 0, 0)),
      age_spots  |-> Pick(_analyze_age_spots("normal", 0, 1000)),
      dark_circles |-> _analyze_dark_circles(-1000),
      eye_bags   |-> _analyze_eye_bags(-500),
      health_draw |-> 0],
     [pores      |-> Pick(analyze_pores("normal", 5000, 1000)),
      wrinkles   |-> Pick(analyze_wrinkles("normal", 20000, 1000)),
      acne       |-> Pick(analyze_acne("normal", 10000, 1000)),
      moisture   |-> Pick(_analyze_moisture("normal", [brightness |-> 0, uniformity |-> -10000], -1000)),
      radiance   |-> Pick(_analyze_radiance("normal", [brightness |-> 0, contrast |-> 0], -1000)),
      firmness   |-> Pick(_analyze_firmness("normal", 20000, -1000)),
      age_spots  |-> Pick(_analyze_age_spots("normal", 10000, 3000)),
      dark_circles |-> _analyze_dark_circles(3000),
      eye_bags   |-> _analyze_eye_bags(2500),
      health_draw |-> 500],
     [pores      |-> Pick(analyze_pores("error", 0, -1000)),
      wrinkles   |-> Pick(analyze_wrinkles("error", 0, -1000)),
      acne       |-> Pick(analyze_acne("error", 0, -1000)),
      moisture   |-> Pick(_analyze_moisture("error", [brightness |-> 0, uniformity |-> 0], -1000)),
      radiance   |-> Pick(_analyze_radiance("error", [brightness |-> 0, contrast |-> 0], -1500)),
      firmness   |-> Pick(_analyze_firmness("error", 0, -1000)),
      age_spots  |-> Pick(_analyze_age_spots("error", 0, -1000)),
      dark_circles |-> _analyze_dark_circles(0),
      eye_bags   |-> _analyze_eye_bags(0),
      health_draw |-> -500]}

\* The estimator outputs of one analyze_skin call.
WithFields(base, texture, color) ==
    [pores |-> base.pores, wrinkles |-> base.wrinkles, acne |-> base.acne,
     moisture |-> base.moisture, radiance |-> base.radiance,
     firmness |-> base.firmness, age_spots |-> base.age_spots,
     dark_circles |-> base.dark_circles, eye_bags |-> base.eye_bags,
     health_draw |-> base.health_draw, texture |-> texture, color |-> color]

SkinGates == [face_detected : BOOLEAN, raises : BOOLEAN, coverage : {0, 499, 500, 5000}]

\* One call of analyze_skin that stops at a gate (no face, too little skin,
\* or an exception before the estimators).
AnalyzeSkinGated ==
    /\ s_call = None
    /\ \E g \in SkinGates :
          /\ g.raises \/ ~g.face_detected \/ insufficient_coverage(g.coverage)
          /\ LET in == [face_detected |-> g.face_detected, raises |-> g.raises,
                        coverage |-> g.coverage, a |-> None]
             IN  \E o \in analyze_skin(in) :
                    /\ s_call' = Some([op |-> "analyze_skin", in |-> in])
                    /\ s_out' = Some(o.report)
                    /\ s_params' = o.created
                    /\ s_ran' = o.ran
    /\ UNCHANGED <<detectVars, ageVars, httpVars, featVars, exprVars, procVars>>

\* One call of analyze_skin that passes the gates and runs the estimators.
AnalyzeSkinEstimated ==
    /\ s_call = None
    /\ \E coverage \in {c \in {0, 499, 500, 5000} : ~insufficient_coverage(c)},
          texture \in TextureOutputs,
          color \in ColorOutputs, other \in OtherOutputs :
          LET in == [face_detected |-> TRUE, raises |-> FALSE, coverage |-> coverage,
                     a |-> WithFields(other, texture, color)]
          IN  \E o \in analyze_skin(in) :
                 /\ s_call' = Some([op |-> "analyze_skin", in |-> in])
                 /\ s_out' = Some(o.report)
                 /\ s_params' = o.created
                 /\ s_ran' = o.ran
                 /\ rng' = rng + skin_draws(in)
    /\ UNCHANGED <<detectVars, ageVars, httpVars, featVars, exprVars, tables, calls>>

\* One call of one estimator, in any mode, on any measured quantities.
EstimatorOutputsIn(op, modes) ==
    CASE op = "analyze_texture" ->
           UNION {analyze_texture(mode, m, j) :
                    mode \in modes, m \in TextureMeasures, j \in TextureDraws}
      [] op = "analyze_pores" ->
           UNION {analyze_pores(mode, m, j) :
                    mode \in modes, m \in Unit01, j \in Uniform(-1000, 1000)}
      [] op = "analyze_wrinkles" ->
           UNION {analyze_wrinkles(mode, m, j) :
                    mode \in modes, m \in Unbounded, j \in Uniform(-1000, 1000)}
      [] op = "analyze_acne" ->
           UNION {analyze_acne(mode, m, j) :
                    mode \in modes, m \in Unit01, j \in Uniform(-1000, 1000)}
      [] op = "analyze_skin_color" ->
           UNION {analyze_skin_color(mode, m, j) :
                    mode \in modes, m \in ColorMeasures, j \in Uniform(-1000, 1000)}
      [] op = "_analyze_moisture" ->
           UNION {_analyze_moisture(mode, m, j) :
                    mode \in modes, m \in [brightness : Unit01, uniformity : Spread],
                    j \in Uniform(-1000, 1000)}
      [] op = "_analyze_radiance" ->
           UNION {UNION {_analyze_radiance(mode, m, j) :
                           m \in [brightness : Unit01, contrast : Unbounded],
                           j \in IF mode = "error" THEN Uniform(-1500, 1500)
                                 ELSE Uniform(-1000, 1000)} : mode \in modes}
      [] op = "_analyze_firmness" ->
           UNION {_analyze_firmness(mode, m, j) :
                    mode \in modes, m \in Unbounded, j \in Uniform(-1000, 1000)}
      [] op = "_analyze_age_spots" ->
           UNION {UNION {_analyze_age_spots(mode, m, j) :
                           m \in Unit01,
                           j \in IF mode = "error" THEN Uniform(-1000, 1000)
                                 ELSE Uniform(1000, 3000)} : mode \in modes}
      [] op = "_analyze_dark_circles" ->
           {[value |-> _analyze_dark_circles(j)] : j \in Uniform(-1000, 3000)}
      [] op = "_analyze_eye_bags" ->
           {[value |-> _analyze_eye_bags(j)] : j \in Uniform(-500, 2500)}

EstimatorOutputs(op) == EstimatorOutputsIn(op, Modes)

\* The dicts handed to _determine_skin_type: scores on both sides of every
\* threshold, and dicts without the key.
SkinTypeOiliness == {1000, 2900, 3000, 5000, 6000, 6100, 7000, 8000}
SkinTypeMoisture == {2000, 3000, 3900, 4000, 8000}
SkinTypeAcne     == {1000, 4000, 4100, 5000, 5100, 6000}
SkinTypeTextures ==
    {[oiliness |-> o] : o \in SkinTypeOiliness} \cup {[confidence |-> 3000]}
SkinTypeMoistures ==
    {[level |-> m] : m \in SkinTypeMoisture} \cup {[confidence |-> 3000]}
SkinTypeAcnes ==
    {[severity |-> a] : a \in SkinTypeAcne} \cup {[confidence |-> 3000]}

\* One call of _determine_skin_type.
DetermineSkinType ==
    /\ s_call = None
    /\ \E texture \in SkinTypeTextures, moisture \in SkinTypeMoistures,
          acne \in SkinTypeAcnes :
          /\ s_call' = Some([op |-> "_determine_skin_type", texture |-> texture,
                             moisture |-> moisture, acne |-> acne])
          /\ s_out' = Some(_determine_skin_type(texture, [severity |-> 3000],
                                                moisture, acne))
          /\ s_params' = {}
          /\ s_ran' = {}
    /\ UNCHANGED <<detectVars, ageVars, httpVars, featVars, exprVars, procVars>>

\* The dicts handed to _generate_recommendations: scores on both sides of
\* the 0.4 threshold, and dicts without the key read.
RecommendationScores == {0, 3900, 4000, 4100, One}
RecommendationDicts(key) ==
    {[k \in {key} |-> v] : v \in RecommendationScores} \cup {[confidence |-> 3000]}

\* One call of _generate_recommendations.
GenerateRecommendations ==
    /\ s_call = None
    /\ \E pore \in RecommendationDicts("severity"),
          wrinkle \in RecommendationDicts("severity"),
          acne \in RecommendationDicts("severity"),
          moisture \in RecommendationDicts("level"),
          radiance \in RecommendationDicts("score") :
          /\ s_call' = Some([op |-> "_generate_recommendations", pore |-> pore,
                             wrinkle |-> wrinkle, acne |-> acne,
                             moisture |-> moisture, radiance |-> radiance])
          /\ s_out' = Some(_generate_recommendations([oiliness |-> 5000], pore,
                              wrinkle, acne, moisture, radiance,
                              [undertone |-> "Neutral"]))
          /\ s_params' = {}
          /\ s_ran' = {}
    /\ UNCHANGED <<detectVars, ageVars, httpVars, featVars, exprVars, procVars>>

\* No single estimator has been called yet.
NoEstimatorCalled ==
    s_call = None /\ a_in = None /\ x_call = None /\ f_call = None

SkinEstimator ==
    /\ NoEstimatorCalled
    /\ \E op \in Estimators, mode \in Modes : \E out \in EstimatorOutputsIn(op, {mode}) :
          /\ s_call' = Some([op |-> op, mode |-> mode])
          /\ s_out' = Some(out)
          /\ s_params' = {}
          /\ s_ran' = {op}
          /\ rng' = rng + EstimatorDraws(op, mode)
    /\ UNCHANGED <<detectVars, ageVars, httpVars, featVars, exprVars, tables, calls>>

----------------------------------------------------------------------------
(* The response schema of the skin analysis  (models/analysis_models.py) *)

\* class SkinType(str, Enum)
SkinType == {"Oily", "Dry", "Combination", "Normal", "Sensitive"}
\* class Undertone(str, Enum)
Undertone == {"Warm", "Cool", "Neutral"}
\* class Severity(str, Enum)
SeverityLevels == {"Low", "Medium", "High"}

\* The SkinParameter fields of SkinAnalysisResult (all required).
SkinParameterFields ==
    {"hd_redness", "hd_oiliness", "hd_age_spot", "hd_radiance", "hd_moisture",
     "hd_dark_circle", "hd_eye_bag", "hd_firmness", "hd_texture", "hd_acne",
     "hd_pore", "hd_wrinkle"}

\* The required fields of SkinAnalysisResult.
SkinAnalysisResultFields ==
    SkinParameterFields
       \cup {"skin_tone", "skin_type", "overall_health", "recommended_treatments"}

\* SkinParameter(**v) validates: the required fields are there and severity
\* is a Severity.
ValidSkinParameter(v) ==
    /\ {"raw_score", "ui_score", "confidence"} \subseteq DOMAIN v
    /\ "severity" \in DOMAIN v => v.severity \in SeverityLevels

\* SkinTone(**v) validates.
ValidSkinTone(v) ==
    /\ {"category", "hex", "rgb", "undertone"} \subseteq DOMAIN v
    /\ v.undertone \in Undertone

\* SkinAnalysisResult(**v) validates (fields outside the schema are ignored).
ValidSkinAnalysisResult(v) ==
    /\ SkinAnalysisResultFields \subseteq DOMAIN v
    /\ \A k \in SkinParameterFields : ValidSkinParameter(v[k])
    /\ ValidSkinTone(v.skin_tone)
    /\ v.skin_type \in SkinType

----------------------------------------------------------------------------
(* FacialFeaturesService and ExpressionAnalysisService, as far as the HTTP
   handlers see them: the default report when the service's own cascade
   finds no face or a step raises, else a report assembled from what the
   sub-analyzers return (in.computed). *)

\* FacialFeaturesService._get_default_features_analysis
_get_default_features_analysis ==
    LET eye == [shape |-> "Almond", size |-> "Average", color |-> "Brown",
                color_hex |-> "#8B4513", open_probability |-> 5000]
    IN  [facial_features |->
            [face_shape |-> [type |-> "Oval", confidence |-> 0,
                             measurements |-> [width |-> 0, height |-> 0,
                                               aspect_ratio |-> 0]],
             left_eye |-> eye, right_eye |-> eye,
             nose_width |-> "Average", nose_length |-> "Average",
             lip_shape |-> "Average", lip_fullness |-> "Average",
             cheekbone_prominence |-> "Average",
             jawline_definition |-> "Average"]]

\* analyze_features with an except branch that raises again.
AnalyzeFeaturesPropagating(in) ==
    IF in.raises THEN [raised |-> "Exception"]
    ELSE IF ~in.face THEN _get_default_features_analysis
    ELSE [facial_features |-> in.computed]

\* FacialFeaturesService.analyze_features
analyze_features(in) ==
    IF in.raises \/ ~in.face THEN _get_default_features_analysis
    ELSE [facial_features |-> in.computed]

ActionUnits ==
    {"AU1", "AU2", "AU4", "AU5", "AU6", "AU7", "AU9", "AU10", "AU12", "AU15",
     "AU17", "AU20", "AU25", "AU26"}
EmotionNames == <<"neutral", "happy", "sad", "angry", "surprise", "fear", "disgust">>

\* ExpressionAnalysisService._get_default_expression_analysis
_get_default_expression_analysis ==
    [expression_analysis |->
        [dominant_emotion |-> "neutral",
         emotions |-> [i \in 1..Len(EmotionNames) |->
                         [name |-> EmotionNames[i],
                          confidence |-> IF i = 1 THEN One ELSE 0]],
         expression_intensity |-> 0,
         facial_action_units |-> [au \in ActionUnits |-> 0]]]

\* ExpressionAnalysisService.analyze_expression
analyze_expression(in) ==
    IF in.raises \/ ~in.face THEN _get_default_expression_analysis
    ELSE [expression_analysis |-> in.computed]

----------------------------------------------------------------------------
(* The HTTP handlers  (main.py) *)

\* len(files) > 10
BatchLimit == 10

\* Bounds of the batches tried: up to MaxFiles files, repeating a pattern
\* of up to MaxPattern uploads.
MaxFiles == 11
MaxPattern == 3

\* What the services see in a decoded image.
Portrait ==
    [name   |-> "portrait", size |-> <<640, 480>>,
     detect |-> [width_height |-> <<640, 480>>, brightness |-> 128,
                 faces |-> << <<5, 5, 200, 200>> >>, cv_ok |-> TRUE],
     skin   |-> [face_detected |-> TRUE, raises |-> FALSE, coverage |-> 5000,
                 a |-> WithFields(
                        CHOOSE o \in OtherOutputs : o.health_draw = 0,
                        Pick(analyze_texture("normal",
                             [roughness |-> 4000, brightness |-> 10000,
                              uniformity |-> 5000], <<0, 0, 0>>)),
                        Pick(analyze_skin_color("normal",
                             [color |-> <<200, 160, 130>>, ratio |-> 9500,
                              redness_raises |-> FALSE], 0)))],
     age    |-> [face |-> TRUE, raises |-> FALSE,
                 wrinkle_score |-> 5000, texture_score |-> 3000,
                 eye_area_score |-> 2000, volume_score |-> 2000,
                 hair_score |-> 1200, skin_tone_score |-> 0],
     features |-> [face |-> TRUE, raises |-> FALSE,
                   computed |-> [face_shape |-> [type |-> "Round"],
                                 nose_width |-> "Wide"]],
     expression |-> [face |-> TRUE, raises |-> FALSE,
                     computed |-> [dominant_emotion |-> "happy",
                                   expression_intensity |-> 4000]]]

\* The same picture with a second, smaller face, found only at scale
\* factor 1.1: the detector reports two faces, the other services none.
Group ==
    [name   |-> "group", size |-> <<320, 240>>,
     detect |-> [width_height |-> <<320, 240>>, brightness |-> 49,
                 faces |-> << <<0, 0, 30, 30>>, <<5, 5, 40, 40>> >>, cv_ok |-> TRUE],
     skin   |-> [face_detected |-> TRUE, raises |-> FALSE, coverage |-> 499,
                 a |-> None],
     age    |-> [face |-> FALSE, raises |-> FALSE,
                 wrinkle_score |-> 0, texture_score |-> 0,
                 eye_area_score |-> 0, volume_score |-> 0,
                 hair_score |-> 0, skin_tone_score |-> 0],
     features   |-> [face |-> FALSE, raises |-> FALSE, computed |-> None],
     expression |-> [face |-> FALSE, raises |-> TRUE, computed |-> None]]

\* A picture without a face.
Landscape ==
    [name   |-> "landscape", size |-> <<200, 90>>,
     detect |-> [width_height |-> <<200, 90>>, brightness |-> 200,
                 faces |-> <<>>, cv_ok |-> TRUE],
     skin   |-> [face_detected |-> FALSE, raises |-> FALSE, coverage |-> 0,
                 a |-> None],
     age    |-> Group.age,
     features   |-> Group.features,
     expression |-> [face |-> FALSE, raises |-> FALSE, computed |-> None]]

\* A picture that decodes, on which the OpenCV calls of detect_faces,
\* analyze_skin, estimate_age and analyze_features raise, and on which the
\* expression analysis finds a face and completes.
Faulty ==
    [name   |-> "faulty", size |-> <<64, 64>>,
     detect |-> [width_height |-> <<64, 64>>, brightness |-> 128,
                 faces |-> <<>>, cv_ok |-> FALSE],
     skin   |-> [face_detected |-> FALSE, raises |-> TRUE, coverage |-> 0,
                 a |-> None],
     age    |-> [Portrait.age EXCEPT !.raises = TRUE],
     features   |-> [Portrait.features EXCEPT !.raises = TRUE],
     expression |-> Portrait.expression]

\* Image.open(io.BytesIO(contents)) and the conversion to a BGR array:
\* the decoded picture, or None when either raises.
Decode(contents) ==
    CASE contents = "portrait bytes"  -> Some(Portrait)
      [] contents = "group bytes"     -> Some(Group)
      [] contents = "landscape bytes" -> Some(Landscape)
      [] contents = "faulty bytes"    -> Some(Faulty)
      [] OTHER                        -> None

\* The uploads tried.  A content type "a/b" is held as <<"a", "b">>; an
\* upload part sent without a Content-Type header has content_type None.
Uploads ==
    {[filename |-> "portrait.jpg", content_type |-> Some(<<"image", "jpeg">>),
      contents |-> "portrait bytes"],
     [filename |-> "group.jpg", content_type |-> Some(<<"image", "jpeg">>),
      contents |-> "group bytes"],
     [filename |-> "landscape.png", content_type |-> Some(<<"image", "png">>),
      contents |-> "landscape bytes"],
     [filename |-> "faulty.png", content_type |-> Some(<<"image", "png">>),
      contents |-> "faulty bytes"],
     [filename |-> "broken.png", content_type |-> Some(<<"image", "png">>),
      contents |-> "not a picture"],
     [filename |-> "notes.txt", content_type |-> Some(<<"text", "plain">>),
      contents |-> "plain text"],
     [filename |-> "untyped.jpg", content_type |-> None,
      contents |-> "portrait bytes"]}

\* p repeated up to length n.
Cycle(p, n) == [i \in 1..n |-> p[((i - 1) % Len(p)) + 1]]

BatchFiles ==
    {Cycle(p, n) : p \in UNION {[1..k -> Uploads] : k \in 1..MaxPattern},
                   n \in 0..MaxFiles}

\* content_type.startswith('image/'), for a content type that is a string.
IsImageAlways(content_type) == TRUE
is_image(content_type) == content_type[1][1] = "image"

\* The gate of the comprehensive flow: no face was detected.
NoFaceNever(result) == FALSE
no_face(result) ==
    ~(IF "face_detection" \in DOMAIN result
      THEN Get(result.face_detection, "has_face", FALSE) ELSE FALSE)

\* The size check of the batch flow.
TooManyOffByOne(fs) == Len(fs) > BatchLimit + 1
too_many(fs) == Len(fs) > BatchLimit

\* The index of the iteration after item i of n, whether or not item i raised.
NextItemAbort(i, n, failed) == IF failed THEN n ELSE i + 1
next_item(i, n, failed) == i + 1

\* The four analyses gathered after the face detection.
Analyses == {"analyze_skin", "analyze_features", "estimate_age", "analyze_expression"}

\* raise HTTPException(status_code, detail): what the client receives.
HTTPException(status_code, detail) == [status |-> status_code, detail |-> detail]

\* The tasks with the facial features and the expression analysis
\* exchanged in the list handed to asyncio.gather.
RunAnalysisExchanged(t, picture) ==
    CASE t = "analyze_skin"       -> {o.report : o \in analyze_skin(picture.skin)}
      [] t = "analyze_features"   -> {analyze_expression(picture.expression)}
      [] t = "estimate_age"       -> estimate_age(picture.age)
      [] t = "analyze_expression" -> {analyze_features(picture.features)}

\* The reports one analysis can return on a decoded picture.
RunAnalysis(t, picture) ==
    CASE t = "analyze_skin"       -> {o.report : o \in analyze_skin(picture.skin)}
      [] t = "analyze_features"   -> {analyze_features(picture.features)}
      [] t = "estimate_age"       -> estimate_age(picture.age)
      [] t = "analyze_expression" -> {analyze_expression(picture.expression)}

\* comprehensive_analysis, up to the first await: the content type check.
ComprehensiveCheck ==
    /\ pc = "idle"
    /\ \E file \in Uploads :
          /\ endpoint' = "comprehensive"
          /\ files' = <<file>>
          /\ IF file.content_type = None
             THEN \* None has no startswith: caught by except Exception
                  /\ response' = Some(HTTPException(500,
                        [error |-> "Comprehensive analysis failed",
                         cause |-> "AttributeError"]))
                  /\ pc' = "done"
             ELSE IF ~is_image(file.content_type)
             THEN /\ response' = Some(HTTPException(400,
                        [error |-> "File must be an image"]))
                  /\ pc' = "done"
             ELSE /\ response' = response
                  /\ pc' = "read"
    /\ UNCHANGED <<loop_i, face_detection_result, started, task_result,
                   results, reads, invoked>>
    /\ UNCHANGED <<detectVars, ageVars, skinVars, featVars, exprVars, procVars>>

\* Reading and decoding the upload.
ComprehensiveRead ==
    /\ endpoint = "comprehensive" /\ pc = "read"
    /\ reads' = reads \cup {0}
    /\ IF Decode(files[1].contents) = None
       THEN /\ response' = Some(HTTPException(500,
                  [error |-> "Comprehensive analysis failed",
                   cause |-> "UnidentifiedImageError"]))
            /\ pc' = "done"
       ELSE /\ response' = response
            /\ pc' = "detect"
    /\ UNCHANGED <<endpoint, files, loop_i, face_detection_result, started,
                   task_result, results, invoked>>
    /\ UNCHANGED <<detectVars, ageVars, skinVars, featVars, exprVars, procVars>>

\* STEP 1: await face_detection_service.detect_faces(cv_image), then the
\* has_face check on what it returned.
ComprehensiveDetect ==
    /\ endpoint = "comprehensive" /\ pc = "detect"
    /\ LET result == detect_faces(Decode(files[1].contents)[1].detect)
       IN  /\ face_detection_result' = Some(result)
           /\ invoked' = invoked \cup {"detect_faces"}
           /\ IF no_face(result)
              THEN /\ response' = Some(HTTPException(400,
                         [error |-> "No face detected",
                          message |-> "Please capture a clear image of your face for analysis. The image must contain a visible human face.",
                          face_detection |-> result.face_detection]))
                   /\ pc' = "done"
              ELSE /\ response' = response
                   /\ pc' = "tasks"
    /\ UNCHANGED <<endpoint, files, loop_i, started, task_result, results, reads>>
    /\ UNCHANGED <<detectVars, ageVars, skinVars, featVars, exprVars, procVars>>

\* STEP 2: one of the four gathered analyses runs, in whatever order the
\* event loop takes them.
ComprehensiveTask(t) ==
    /\ endpoint = "comprehensive" /\ pc = "tasks"
    /\ t \notin started
    /\ started' = started \cup {t}
    /\ invoked' = invoked \cup {t}
    /\ \E r \in RunAnalysis(t, Decode(files[1].contents)[1]) :
          task_result' = [task_result EXCEPT ![t] = Some(r)]
    /\ UNCHANGED <<endpoint, pc, files, loop_i, face_detection_result, results,
                   reads, response>>
    /\ rng' = rng + (IF t = "analyze_skin"
                      THEN skin_draws(Decode(files[1].contents)[1].skin) ELSE 0)
    /\ UNCHANGED <<detectVars, ageVars, skinVars, featVars, exprVars, tables, calls>>

\* STEP 3: gather has every result; combine and return.
ComprehensiveCombine ==
    /\ endpoint = "comprehensive" /\ pc = "tasks"
    /\ started = Analyses
    /\ response' = Some(
          [status |-> 200,
           body |-> [face_detection      |-> face_detection_result[1],
                     skin_analysis       |-> task_result["analyze_skin"][1],
                     facial_features     |-> task_result["analyze_features"][1],
                     age_estimation      |-> task_result["estimate_age"][1],
                     expression_analysis |-> task_result["analyze_expression"][1],
                     analysis_metadata   |->
                        [image_size |-> Decode(files[1].contents)[1].size,
                         processing_time |-> "calculated_in_service"]]])
    /\ pc' = "done"
    /\ UNCHANGED <<endpoint, files, loop_i, face_detection_result, started,
                   task_result, results, reads, invoked>>
    /\ UNCHANGED <<detectVars, ageVars, skinVars, featVars, exprVars, procVars>>

\* The five single-analysis endpoints and the service each one calls.
SingleEndpoints ==
    [face_detection_endpoint |-> "detect_faces",
     skin_analysis_endpoint  |-> "analyze_skin",
     facial_features_endpoint |-> "analyze_features",
     age_estimation_endpoint |-> "estimate_age",
     expression_endpoint     |-> "analyze_expression"]

\* XResponse(**result): the response model accepts the report.  The skin
\* report is checked against SkinAnalysisResult; the reports of the other
\* services carry the fields of their models.
ResponseValidates(service, result) ==
    IF service = "analyze_skin"
    THEN ValidSkinAnalysisResult(result.skin_analysis)
    ELSE TRUE

\* The except clauses of a single-analysis handler: "except Exception"
\* alone, which also catches the HTTPException the handler raised itself.
handler_status(status_code) == 500

\* One of the single-analysis handlers on one upload: what the client
\* receives, whether the upload was read, and the service called.
single_analysis(service, file) ==
    IF file.content_type = None
    THEN {[response |-> HTTPException(500, [error |-> "analysis failed",
                                            cause |-> "AttributeError"]),
           read |-> FALSE, services |-> {}]}
    ELSE IF ~is_image(file.content_type)
    THEN {[response |-> HTTPException(handler_status(400),
                                      [error |-> "File must be an image"]),
           read |-> FALSE, services |-> {}]}
    ELSE IF Decode(file.contents) = None
    THEN {[response |-> HTTPException(500, [error |-> "analysis failed",
                                            cause |-> "UnidentifiedImageError"]),
           read |-> TRUE, services |-> {}]}
    ELSE LET picture == Decode(file.contents)[1]
             reports == IF service = "detect_faces"
                        THEN {detect_faces(picture.detect)}
                        ELSE RunAnalysis(service, picture)
         IN  {[response |-> IF ResponseValidates(service, result)
                            THEN [status |-> 200, body |-> result]
                            ELSE HTTPException(500, [error |-> "analysis failed",
                                                     cause |-> "ValidationError"]),
               read |-> TRUE, services |-> {service}] : result \in reports}

\* A request to one of the five single-analysis endpoints.
SingleAnalysis ==
    /\ pc = "idle"
    /\ \E ep \in DOMAIN SingleEndpoints, file \in Uploads :
          \E o \in single_analysis(SingleEndpoints[ep], file) :
             /\ endpoint' = ep
             /\ files' = <<file>>
             /\ response' = Some(o.response)
             /\ reads' = IF o.read THEN {0} ELSE {}
             /\ invoked' = o.services
             /\ rng' = rng + (IF "analyze_skin" \in o.services
                               THEN skin_draws(Decode(file.contents)[1].skin)
                               ELSE 0)
             /\ pc' = "done"
    /\ UNCHANGED <<loop_i, face_detection_result, started, task_result, results>>
    /\ UNCHANGED <<detectVars, ageVars, skinVars, featVars, exprVars, tables, calls>>

\* batch_analysis: the size check.  The HTTPException it raises is caught
\* by the handler's own except Exception and raised again with status 500.
BatchStart ==
    /\ pc = "idle"
    /\ \E fs \in BatchFiles :
          /\ endpoint' = "batch"
          /\ files' = fs
          /\ IF too_many(fs)
             THEN /\ response' = Some(HTTPException(500,
                        [error |-> "Batch analysis failed",
                         cause |-> "400: Maximum 10 images per batch"]))
                  /\ pc' = "done"
             ELSE /\ response' = response
                  /\ pc' = "loop"
    /\ UNCHANGED <<loop_i, face_detection_result, started, task_result,
                   results, reads, invoked>>
    /\ UNCHANGED <<detectVars, ageVars, skinVars, featVars, exprVars, procVars>>

\* What one iteration of the loop does with file i (counted from 0): skip
\* it, or append an entry; whether it read the file, and the services run.
batch_item(i, file) ==
    IF file.content_type = None
    THEN {[skip |-> FALSE, failed |-> TRUE, read |-> FALSE, services |-> {},
           entry |-> [file_index |-> i, filename |-> file.filename,
                      error |-> "AttributeError"]]}
    ELSE IF ~is_image(file.content_type)
    THEN {[skip |-> TRUE, failed |-> FALSE, read |-> FALSE, services |-> {},
           entry |-> None]}
    ELSE IF Decode(file.contents) = None
    THEN {[skip |-> FALSE, failed |-> TRUE, read |-> TRUE, services |-> {},
           entry |-> [file_index |-> i, filename |-> file.filename,
                      error |-> "UnidentifiedImageError"]]}
    ELSE LET picture == Decode(file.contents)[1]
         IN  {[skip |-> FALSE, failed |-> FALSE, read |-> TRUE,
               services |-> Analyses \cup {"detect_faces"},
               entry |-> [file_index |-> i, filename |-> file.filename,
                          analysis |->
                            [face_detection      |-> detect_faces(picture.detect),
                             skin_analysis       |-> sk,
                             facial_features     |-> ff,
                             age_estimation      |-> ag,
                             expression_analysis |-> ex]]] :
                sk \in RunAnalysis("analyze_skin", picture),
                ff \in RunAnalysis("analyze_features", picture),
                ag \in RunAnalysis("estimate_age", picture),
                ex \in RunAnalysis("analyze_expression", picture)}

\* One iteration of the for loop.
BatchItem ==
    /\ endpoint = "batch" /\ pc = "loop"
    /\ loop_i < Len(files)
    /\ \E o \in batch_item(loop_i, files[loop_i + 1]) :
          /\ results' = IF o.skip THEN results ELSE Append(results, o.entry)
          /\ reads' = IF o.read THEN reads \cup {loop_i} ELSE reads
          /\ invoked' = invoked \cup o.services
          /\ loop_i' = next_item(loop_i, Len(files), o.failed)
          /\ rng' = rng + (IF "analyze_skin" \in o.services
                            THEN skin_draws(Decode(files[loop_i + 1].contents)[1].skin)
                            ELSE 0)
    /\ UNCHANGED <<endpoint, pc, files, face_detection_result, started,
                   task_result, response>>
    /\ UNCHANGED <<detectVars, ageVars, skinVars, featVars, exprVars, tables, calls>>

\* The loop is over: return {"batch_results": results}.
BatchReturn ==
    /\ endpoint = "batch" /\ pc = "loop"
    /\ loop_i >= Len(files)
    /\ response' = Some([status |-> 200, body |-> [batch_results |-> results]])
    /\ pc' = "done"
    /\ UNCHANGED <<endpoint, files, loop_i, face_detection_result, started,
                   task_result, results, reads, invoked>>
    /\ UNCHANGED <<detectVars, ageVars, skinVars, featVars, exprVars, procVars>>

----------------------------------------------------------------------------
(* The estimators of the age, expression and feature services, one by one.
   A region is what the slicing of the image produced: its height and width
   in pixels (its size is zero when either is) and the quantities measured
   on it, in 1/One. *)

RECURSIVE SumSeq(_)
SumSeq(s) == IF s = <<>> THEN 0 ELSE s[1] + SumSeq(Tail(s))
\* np.mean(scores) if scores else 0.0
MeanOrZero(scores) == IF scores = <<>> THEN 0 ELSE SumSeq(scores) \div Len(scores)

RegionSize(r) == r.h * r.w
RegionDims == {<<0, 0>>, <<0, 40>>, <<1, 1>>, <<12, 40>>, <<20, 40>>, <<30, 60>>}

\* AgeEstimationService._analyze_wrinkles.  m = mean wrinkle strength / 50.
_analyze_wrinkles(face_region) ==
    IF RegionSize(face_region) = 0 THEN 0 ELSE Min2(One, face_region.m)

\* AgeEstimationService._analyze_skin_texture.  m = var(lbp) / 100.
_analyze_skin_texture(face_region) ==
    IF RegionSize(face_region) = 0 THEN 0 ELSE Min2(One, face_region.m)

\* AgeEstimationService._analyze_eye_area.  parts: for each of the two eye
\* regions, its size and eye_score = (dark_score + variation_score) / 2.
_analyze_eye_area(face_region) ==
    IF RegionSize(face_region) = 0 THEN 0
    ELSE LET kept   == SelectSeq(face_region.parts, LAMBDA p : p.size > 0)
             scores == [i \in 1..Len(kept) |-> Min2(One, kept[i].m)]
         IN  MeanOrZero(scores)

\* AgeEstimationService._analyze_facial_volume.  parts: the two cheeks, each
\* with volume_score = mean gradient magnitude / 50.
_analyze_facial_volume(face_region) ==
    IF RegionSize(face_region) = 0 THEN 0
    ELSE LET kept   == SelectSeq(face_region.parts, LAMBDA p : p.size > 0)
             scores == [i \in 1..Len(kept) |-> Min2(One, kept[i].m)]
         IN  MeanOrZero(scores)

\* AgeEstimationService._analyze_hair_characteristics.  bbox: whether a face
\* box was given; density = std / 50, brightness = mean / 150.
_analyze_hair_characteristics(hair_region) ==
    IF ~hair_region.bbox THEN 0
    ELSE IF RegionSize(hair_region) = 0 THEN 0
    ELSE ((One - Min2(One, hair_region.density))
            + Min2(One, hair_region.brightness)) \div 2

\* AgeEstimationService._analyze_skin_tone.  yellow = (mean b - 128) / 20,
\* spread = std L / 64 (which is 1 - color_uniformity).
_analyze_skin_tone(face_region) ==
    IF RegionSize(face_region) = 0 THEN 0
    ELSE (Min2(One, face_region.yellow) + face_region.spread) \div 2

AgeIndicators ==
    {"_analyze_wrinkles", "_analyze_skin_texture", "_analyze_eye_area",
     "_analyze_facial_volume", "_analyze_hair_characteristics",
     "_analyze_skin_tone"}

\* An eye region: its size and its eye_score, which is negative for a
\* bright, even region.  A cheek: its size and its volume_score, a mean of
\* gradient magnitudes and so never negative.
PartRegions == [size : {0, 200}, m : {-4000, 2000, 12000}]
CheekRegions == [size : {0, 200}, m : {0, 2000, 12000}]

\* The regions each age indicator is tried on.
AgeIndicatorRegions(op) ==
    CASE op \in {"_analyze_wrinkles", "_analyze_skin_texture"} ->
           {[h |-> d[1], w |-> d[2], m |-> m] : d \in RegionDims, m \in Unbounded}
      [] op = "_analyze_eye_area" ->
           {[h |-> d[1], w |-> d[2], parts |-> <<p, q>>] :
              d \in RegionDims, p \in PartRegions, q \in PartRegions}
      [] op = "_analyze_facial_volume" ->
           {[h |-> d[1], w |-> d[2], parts |-> <<p, q>>] :
              d \in RegionDims, p \in CheekRegions, q \in CheekRegions}
      [] op = "_analyze_hair_characteristics" ->
           {[bbox |-> b, h |-> d[1], w |-> d[2], density |-> dn, brightness |-> br] :
              b \in BOOLEAN, d \in RegionDims, dn \in Unbounded, br \in Unbounded}
      [] op = "_analyze_skin_tone" ->
           {[h |-> d[1], w |-> d[2], yellow |-> y, spread |-> s] :
              d \in RegionDims, y \in {-20000, 0, 5000, 20000}, s \in Unbounded}

AgeIndicatorScore(op, region) ==
    CASE op = "_analyze_wrinkles" -> _analyze_wrinkles(region)
      [] op = "_analyze_skin_texture" -> _analyze_skin_texture(region)
      [] op = "_analyze_eye_area" -> _analyze_eye_area(region)
      [] op = "_analyze_facial_volume" -> _analyze_facial_volume(region)
      [] op = "_analyze_hair_characteristics" -> _analyze_hair_characteristics(region)
      [] op = "_analyze_skin_tone" -> _analyze_skin_tone(region)

\* One call of one age indicator.
AgeIndicator ==
    /\ NoEstimatorCalled
    /\ \E op \in AgeIndicators : \E region \in AgeIndicatorRegions(op) :
          /\ a_in' = Some([op |-> op, region |-> region])
          /\ a_report' = Some(AgeIndicatorScore(op, region))
    /\ UNCHANGED <<detectVars, skinVars, featVars, exprVars, httpVars, procVars>>

\* The action-unit scorers of ExpressionAnalysisService.  Eight look at one
\* region, six at a left and a right region.
OneRegionUnits == {"AU1", "AU4", "AU9", "AU10", "AU17", "AU20", "AU25", "AU26"}
TwoRegionUnits == {"AU2", "AU5", "AU6", "AU7", "AU12", "AU15"}
\* The scorers that average a selection grad_y[grad_y > 0] (or < 0), which
\* is empty on a flat region: np.mean of it is nan.
SelectionUnits == {"AU1", "AU2", "AU4", "AU6", "AU10", "AU12", "AU15", "AU17"}
\* The scorers of (128 - mean) / 128, which is negative on a bright region.
DarknessUnits == {"AU25", "AU26"}

\* min(1.0, x): Python's min keeps 1.0 when x is nan, since nan < 1.0 is false.
MinOneOf(r) == IF r.nan THEN One ELSE Min2(One, r.m)

\* _analyze_inner_brow_raiser and the seven other one-region scorers.
one_region_score(au, region) ==
    IF region.size = 0 THEN 0
    ELSE IF au \in DarknessUnits THEN Max2(0, Min2(One, region.m))
    ELSE MinOneOf(region)

\* _analyze_outer_brow_raiser and the five other two-region scorers.
two_region_score(au, regions) ==
    LET kept   == SelectSeq(regions, LAMBDA r : r.size > 0)
        scores == [i \in 1..Len(kept) |-> MinOneOf(kept[i])]
    IN  MeanOrZero(scores)

\* The regions a scorer is tried on: nan only where a selection is averaged,
\* negative quantities only for the darkness scorers.
UnitRegions(au) ==
    {r \in [size : {0, 600}, nan : BOOLEAN, m : {-5000, 0, 4000, 20000}] :
        /\ r.nan => au \in SelectionUnits /\ r.size > 0 /\ r.m = 0
        /\ r.m < 0 => au \in DarknessUnits}

action_unit_score(au, regions) ==
    IF au \in OneRegionUnits THEN one_region_score(au, regions[1])
    ELSE two_region_score(au, regions)

\* One call of one action-unit scorer.
ActionUnitScorer ==
    /\ NoEstimatorCalled
    /\ \E au \in ActionUnits :
       \E regions \in IF au \in OneRegionUnits
                      THEN {<<r>> : r \in UnitRegions(au)}
                      ELSE {<<l, r>> : l \in UnitRegions(au), r \in UnitRegions(au)} :
          /\ x_call' = Some([op |-> au, regions |-> regions])
          /\ x_out' = Some(action_unit_score(au, regions))
    /\ UNCHANGED <<detectVars, ageVars, skinVars, featVars, httpVars, procVars>>

\* EyeAnalyzer._analyze_eye_shape
_analyze_eye_shape(eye_region) ==
    IF RegionSize(eye_region) = 0 THEN "Almond"
    ELSE IF 10 * eye_region.w > 25 * eye_region.h THEN "Narrow"
    ELSE IF 10 * eye_region.w < 18 * eye_region.h THEN "Round"
    ELSE "Almond"

\* EyeAnalyzer._analyze_eye_size
_analyze_eye_size(eye_region) ==
    IF RegionSize(eye_region) = 0 THEN "Average"
    ELSE IF RegionSize(eye_region) > 1000 THEN "Big"
    ELSE IF RegionSize(eye_region) < 600 THEN "Small"
    ELSE "Average"

\* EyeAnalyzer._analyze_eye_color.  rgb = the mean colour of the iris, the
\* middle half of the region, which is empty for a region one pixel high.
_analyze_eye_color(eye_region) ==
    LET r == eye_region.rgb[1]
        g == eye_region.rgb[2]
        b == eye_region.rgb[3]
        iris_h == (3 * eye_region.h) \div 4 - eye_region.h \div 4
        iris_w == (3 * eye_region.w) \div 4 - eye_region.w \div 4
    IN  IF RegionSize(eye_region) = 0 THEN <<"Brown", "#8B4513">>
        ELSE IF iris_h * iris_w = 0 THEN <<"Brown", "#8B4513">>
        ELSE IF b > r /\ b > g
             THEN (IF b > 150 THEN <<"Blue", "hex(rgb)">> ELSE <<"Gray", "hex(rgb)">>)
        ELSE IF g > r /\ g > b THEN <<"Green", "hex(rgb)">>
        ELSE IF r > 100 /\ g > 80 /\ b < 60 THEN <<"Hazel", "hex(rgb)">>
        ELSE <<"Brown", "hex(rgb)">>

\* EyeAnalyzer._analyze_open_probability.  m = std of the row means / 30.
_analyze_open_probability(eye_region) ==
    IF RegionSize(eye_region) = 0 THEN {5000}
    ELSE RoundSet(Min2(One, eye_region.m), 10)

\* NoseAnalyzer._analyze_nose_width
_analyze_nose_width(nose_region, face_w) ==
    IF RegionSize(nose_region) = 0 THEN "Average"
    ELSE IF face_w > 0 /\ 10 * nose_region.w > 3 * face_w THEN "Broad"
    ELSE IF face_w > 0 /\ 10 * nose_region.w < 2 * face_w THEN "Narrow"
    ELSE "Average"

\* NoseAnalyzer._analyze_nose_length
_analyze_nose_length(nose_region, face_h) ==
    IF RegionSize(nose_region) = 0 THEN "Average"
    ELSE IF face_h > 0 /\ 100 * nose_region.h > 40 * face_h THEN "Long"
    ELSE IF face_h > 0 /\ 100 * nose_region.h < 25 * face_h THEN "Short"
    ELSE "Average"

\* LipAnalyzer._analyze_lip_shape
_analyze_lip_shape(lip_region) ==
    IF RegionSize(lip_region) = 0 THEN "Average"
    ELSE IF 10 * lip_region.w > 40 * lip_region.h THEN "Wide"
    ELSE IF 10 * lip_region.w < 25 * lip_region.h THEN "Round"
    ELSE "Average"

\* LipAnalyzer._analyze_lip_fullness
_analyze_lip_fullness(lip_region) ==
    IF RegionSize(lip_region) = 0 THEN "Average"
    ELSE IF lip_region.h > 25 THEN "Full"
    ELSE IF lip_region.h < 15 THEN "Thin"
    ELSE "Average"

\* JawlineAnalyzer._analyze_jawline_definition.  m = sum(edges) / edges.size.
_analyze_jawline_definition(jawline_region) ==
    IF RegionSize(jawline_region) = 0 THEN "Average"
    ELSE IF jawline_region.m > 1000 THEN "Sharp"
    ELSE IF jawline_region.m < 500 THEN "Soft"
    ELSE "Average"

FeatureClassifiers ==
    {"_analyze_eye_shape", "_analyze_eye_size", "_analyze_eye_color",
     "_analyze_open_probability", "_analyze_nose_width", "_analyze_nose_length",
     "_analyze_lip_shape", "_analyze_lip_fullness", "_analyze_jawline_definition"}

\* The regions the classifiers are tried on, with the face box side they
\* are compared to.
FeatureRegions ==
    {[h |-> d[1], w |-> d[2], rgb |-> c, m |-> m, face |-> f] :
        d \in RegionDims,
        c \in {<<90, 60, 40>>, <<60, 90, 200>>, <<60, 70, 120>>, <<60, 120, 90>>,
               <<140, 100, 40>>},
        m \in {0, 700, 4000, 20000},
        f \in {0, 100, 200}}

\* What a classifier returns on a region (a set: rounding is set-valued).
FeatureLabels(op, region) ==
    CASE op = "_analyze_eye_shape" -> {_analyze_eye_shape(region)}
      [] op = "_analyze_eye_size" -> {_analyze_eye_size(region)}
      [] op = "_analyze_eye_color" -> {_analyze_eye_color(region)}
      [] op = "_analyze_open_probability" -> _analyze_open_probability(region)
      [] op = "_analyze_nose_width" -> {_analyze_nose_width(region, region.face)}
      [] op = "_analyze_nose_length" -> {_analyze_nose_length(region, region.face)}
      [] op = "_analyze_lip_shape" -> {_analyze_lip_shape(region)}
      [] op = "_analyze_lip_fullness" -> {_analyze_lip_fullness(region)}
      [] op = "_analyze_jawline_definition" -> {_analyze_jawline_definition(region)}

\* One call of one feature classifier.
FeatureClassifier ==
    /\ NoEstimatorCalled
    /\ \E op \in FeatureClassifiers, region \in FeatureRegions :
       \E out \in FeatureLabels(op, region) :
          /\ f_call' = Some([op |-> op, region |-> region])
          /\ f_out' = Some(out)
    /\ UNCHANGED <<detectVars, ageVars, skinVars, exprVars, httpVars, procVars>>

----------------------------------------------------------------------------
(* ExpressionAnalysisService: from action units to the report *)

\* The action units summed by each emotion, in the order _detect_emotions
\* appends the emotions.  neutral is computed from all of them.
EmotionUnits ==
    << [name |-> "happy",    units |-> <<"AU6", "AU12">>],
       [name |-> "sad",      units |-> <<"AU15", "AU1">>],
       [name |-> "angry",    units |-> <<"AU4", "AU15">>],
       [name |-> "surprise", units |-> <<"AU1", "AU2", "AU5", "AU25">>],
       [name |-> "fear",     units |-> <<"AU1", "AU5", "AU20">>],
       [name |-> "disgust",  units |-> <<"AU9", "AU10">>] >>

\* The divisors 2, 3, 4 and 14 all divide Fine: a mean of scores in 1/One is
\* a whole number of 1/(Fine * One).
Fine == 84

\* round(total / n, 3) for a total of scores in 1/One.
RoundMean(total, n) ==
    {c \div Fine : c \in RoundSet(total * (Fine \div n), 10 * Fine)}

RECURSIVE SumUnits(_, _)
SumUnits(action_units, S) ==
    IF S = {} THEN 0
    ELSE LET au == CHOOSE u \in S : TRUE
         IN  action_units[au] + SumUnits(action_units, S \ {au})

\* ExpressionAnalysisService._detect_emotions: the lists it can return.
_detect_emotions(action_units) ==
    LET scored(i) ==
            LET units == EmotionUnits[i].units
                total == SumSeq([k \in 1..Len(units) |-> action_units[units[k]]])
            IN  RoundMean(total, Len(units))
        all == SumUnits(action_units, DOMAIN action_units)
        neutral_score == {One - c : c \in RoundMean(all, Cardinality(DOMAIN action_units))}
    IN  {[i \in 1..7 |->
            IF i <= 6 THEN [name |-> EmotionUnits[i].name, confidence |-> cs[i]]
            ELSE [name |-> "neutral", confidence |-> Max2(0, cs[7])]] :
            cs \in {<<c1, c2, c3, c4, c5, c6, c7>> :
                      c1 \in scored(1), c2 \in scored(2), c3 \in scored(3),
                      c4 \in scored(4), c5 \in scored(5), c6 \in scored(6),
                      c7 \in neutral_score}}

\* ExpressionAnalysisService._calculate_expression_intensity, rounded as
\* analyze_expression does.
_calculate_expression_intensity(action_units) ==
    LET all == SumUnits(action_units, DOMAIN action_units)
    IN  {Min2(One, c) : c \in RoundMean(all, Cardinality(DOMAIN action_units))}

\* max(emotions, key=confidence) taken as the last maximal entry.
DominantLast(emotions) ==
    LET best == {i \in DOMAIN emotions :
                   \A k \in DOMAIN emotions : emotions[k].confidence <= emotions[i].confidence}
    IN  emotions[CHOOSE i \in best : \A k \in best : k <= i]

\* max(emotions, key=lambda x: x['confidence']): the first maximal entry.
dominant_emotion(emotions) ==
    LET best == {i \in DOMAIN emotions :
                   \A k \in DOMAIN emotions : emotions[k].confidence <= emotions[i].confidence}
    IN  emotions[CHOOSE i \in best : \A k \in best : i <= k]

\* analyze_expression past the face detection: the reports it can return
\* for the action units measured.
expression_report(action_units) ==
    {[expression_analysis |->
        [dominant_emotion |-> dominant_emotion(emotions).name,
         emotions |-> emotions,
         expression_intensity |-> intensity,
         facial_action_units |-> action_units]] :
        emotions \in _detect_emotions(action_units),
        intensity \in _calculate_expression_intensity(action_units)}

\* The action-unit maps tried: every unit at one level, then up to two
\* units moved to another score.
UnitLevels == {0, 5000, 10000}
UnitScores == {0, 1, 3335, 5000, 10000}
ActionUnitMaps ==
    {[au \in ActionUnits |-> IF au = a THEN x ELSE IF au = b THEN y ELSE base] :
        base \in UnitLevels, a \in ActionUnits, b \in ActionUnits,
        x \in UnitScores, y \in UnitScores}

\* One call of analyze_expression: no face found (or a step raises), or the
\* report computed from the action units.
AnalyzeExpression ==
    /\ NoEstimatorCalled
    /\ \E face \in BOOLEAN, action_units \in ActionUnitMaps :
       \E out \in IF face THEN expression_report(action_units)
                  ELSE {_get_default_expression_analysis} :
          /\ x_call' = Some([op |-> "analyze_expression", face |-> face,
                             action_units |-> action_units])
          /\ x_out' = Some(out)
    /\ UNCHANGED <<detectVars, ageVars, skinVars, featVars, httpVars, procVars>>

----------------------------------------------------------------------------
(* FaceShapeAnalyzer  (facial_features_service.py) *)

\* self.shape_ratios, in tenths, in the order the dict is iterated.
ShapeOrder == <<"Round", "Oval", "Square", "Oblong", "Heart", "Diamond">>
shape_ratios ==
    [Round |-> <<9, 11>>, Oval |-> <<12, 14>>, Square |-> <<9, 11>>,
     Oblong |-> <<14, 18>>, Heart |-> <<11, 13>>, Diamond |-> <<11, 13>>]

\* Confidences are carried in 1/(Half * One), in which every confidence of
\* the boxes tried is a whole number.
Half == 2

\* ratios['min_ratio'] <= aspect_ratio <= ratios['max_ratio'] for h / w
InRange(shape, w, h) ==
    shape_ratios[shape][1] * w <= 10 * h /\ 10 * h <= shape_ratios[shape][2] * w

\* confidence = 1 - (distance / (range_size / 2))
RangeConfidence(shape, w, h) ==
    LET lo   == shape_ratios[shape][1]
        hi   == shape_ratios[shape][2]
        d    == 20 * h - (lo + hi) * w
        dist == IF d >= 0 THEN d ELSE -d
    IN  Half * One - (Half * One * dist) \div ((hi - lo) * w)

\* On a range boundary the confidence is 0 in exact arithmetic.  Evaluated
\* in IEEE doubles on the literals of shape_ratios it is 5.55e-16 at aspect
\* ratio 0.9 for [0.9, 1.1] and at 1.8 for [1.4, 1.8], and 0.0 or negative
\* at every other boundary.  1 stands for that positive residue.
FloatResidue(shape, w, h) ==
    IF \/ 10 * h = 9 * w /\ shape_ratios[shape][1] = 9
       \/ 10 * h = 18 * w /\ shape_ratios[shape][2] = 18
    THEN 1 ELSE 0

\* The loop with "confidence >= best_confidence": of two shapes of equal
\* confidence the later one is kept.
RECURSIVE BestShapeLastWins(_, _, _, _)
BestShapeLastWins(i, best, w, h) ==
    IF i > Len(ShapeOrder) THEN best
    ELSE LET shape == ShapeOrder[i]
             c     == RangeConfidence(shape, w, h)
             r     == FloatResidue(shape, w, h)
             wins  == InRange(shape, w, h) /\ c >= best.confidence
         IN  BestShapeLastWins(i + 1,
                       IF wins THEN [shape |-> shape, confidence |-> c, residue |-> r]
                       ELSE best,
                       w, h)

\* The loop over shape_ratios, from entry i on; best = [shape, confidence,
\* residue].
RECURSIVE BestShape(_, _, _, _)
BestShape(i, best, w, h) ==
    IF i > Len(ShapeOrder) THEN best
    ELSE LET shape == ShapeOrder[i]
             c     == RangeConfidence(shape, w, h)
             r     == FloatResidue(shape, w, h)
             wins  == /\ InRange(shape, w, h)
                      /\ \/ c > best.confidence
                         \/ c = best.confidence /\ r > best.residue
         IN  BestShape(i + 1,
                       IF wins THEN [shape |-> shape, confidence |-> c, residue |-> r]
                       ELSE best,
                       w, h)

\* FaceShapeAnalyzer._analyze_jawline_width / _analyze_forehead_width, in
\* tenths of a pixel; None when the landmark is missing.
_analyze_jawline_width(landmarks) ==
    IF landmarks.chin THEN Some(landmarks.w * 8) ELSE None
_analyze_forehead_width(landmarks) ==
    IF landmarks.forehead THEN Some(landmarks.w * 9) ELSE None

\* A width that Python takes as true: not None and not 0.0.
Truthy(width) == width # None /\ width[1] # 0

\* FaceShapeAnalyzer._get_default_shape
_get_default_shape ==
    [type |-> "Oval", confidence |-> 0,
     measurements |-> [width |-> 0, height |-> 0]]

\* The refinement by the forehead / jawline width ratio.
Refine(best, jawline_width, forehead_width) ==
    IF ~(Truthy(jawline_width) /\ Truthy(forehead_width)) THEN best
    ELSE IF 100 * forehead_width[1] > 115 * jawline_width[1]
         THEN [shape |-> "Heart", residue |-> 0,
               confidence |-> Min2(best.confidence + 2 * Half * 1000, Half * One)]
    ELSE IF 100 * forehead_width[1] < 85 * jawline_width[1]
         THEN [shape |-> "Diamond", residue |-> 0,
               confidence |-> Min2(best.confidence + Half * 1000, Half * One)]
    ELSE best

\* FaceShapeAnalyzer.analyze.  landmarks: bounds (the key 'face_bounds' is
\* present), w, h (the face box), chin, forehead (the keys are present).
\* Returns the possible results (rounding is set-valued).
FaceShapeAnalyzer_analyze(landmarks) ==
    IF ~landmarks.bounds THEN {_get_default_shape}
    ELSE LET w == landmarks.w
             h == landmarks.h
             \* aspect_ratio = h / w if w > 0 else 1.0
             rw == IF w > 0 THEN w ELSE 1
             rh == IF w > 0 THEN h ELSE 1
             first == BestShape(1, [shape |-> "Oval", confidence |-> 0, residue |-> 0],
                                rw, rh)
             best  == Refine(first, _analyze_jawline_width(landmarks),
                             _analyze_forehead_width(landmarks))
         IN  {[type |-> best.shape, confidence |-> c \div Half,
               measurements |-> [width |-> w, height |-> h]] :
                c \in RoundSet(best.confidence, 10 * Half)}

\* The face boxes tried: widths for which every confidence is a whole
\* number of 1/(Half * One), heights giving aspect ratios 0.8 to 1.9, and
\* the box of width 0.
ShapeWidths == {10, 20, 40, 50, 100}
FaceBoxes ==
    {<<w, h>> \in ShapeWidths \X (1..190) : 8 * w <= 10 * h /\ 10 * h <= 19 * w}
        \cup {<<0, 0>>}

\* One call of FaceShapeAnalyzer.analyze.
AnalyzeFaceShape ==
    /\ NoEstimatorCalled
    /\ \E box \in FaceBoxes, bounds \in BOOLEAN, chin \in BOOLEAN, forehead \in BOOLEAN :
          LET landmarks == [bounds |-> bounds, w |-> box[1], h |-> box[2],
                            chin |-> chin, forehead |-> forehead]
          IN  \E out \in FaceShapeAnalyzer_analyze(landmarks) :
                 /\ f_call' = Some([op |-> "FaceShapeAnalyzer.analyze",
                                    landmarks |-> landmarks])
                 /\ f_out' = Some(out)
    /\ UNCHANGED <<detectVars, ageVars, skinVars, exprVars, httpVars, procVars>>

----------------------------------------------------------------------------
(* The process: the five service objects main.py creates once, and the
   calls made on them one after the other *)

\* Number of service calls followed.
MaxCalls == 3

\* The fields the services set in __init__ and read in their analyses.
ServiceTables ==
    [age_indicators |->
        [wrinkles |-> 30, skin_texture |-> 20, eye_area |-> 15,
         facial_volume |-> 15, hair_characteristics |-> 10, skin_tone |-> 10],
     facial_action_units |-> ActionUnits,
     shape_ratios |-> shape_ratios]

Services == Analyses \cup {"detect_faces"}
Pictures == {Portrait, Group, Landscape}

\* The service fields after a call that also drops an entry of a table.
FieldsAfterPruned(op, t) ==
    [t EXCEPT !.facial_action_units = @ \ {"AU26"}]

\* The service fields after a call of op: no method of a service assigns a
\* field or an entry of its tables.
fields_after(op, t) == t

\* The report a call of op returns on a picture, the service fields being t.
\* The default expression report lists the keys of self.facial_action_units.
ServiceReport(op, picture, t) ==
    CASE op = "detect_faces" -> detect_faces(picture.detect)
      [] op = "analyze_expression" ->
           IF picture.expression.raises \/ ~picture.expression.face
           THEN [expression_analysis |->
                   [_get_default_expression_analysis.expression_analysis
                      EXCEPT !.facial_action_units =
                                [au \in t.facial_action_units |-> 0]]]
           ELSE analyze_expression(picture.expression)
      [] OTHER -> Pick(RunAnalysis(op, picture))

\* One call of one service on one picture.
ServiceCall ==
    /\ Len(calls) < MaxCalls
    /\ \E op \in Services, picture \in Pictures :
          /\ calls' = Append(calls, [op |-> op, picture |-> picture.name,
                                     report |-> ServiceReport(op, picture, tables)])
          /\ rng' = rng + (IF op = "analyze_skin" THEN skin_draws(picture.skin) ELSE 0)
          /\ tables' = fields_after(op, tables)
    /\ UNCHANGED <<detectVars, ageVars, skinVars, featVars, exprVars, httpVars>>

----------------------------------------------------------------------------
(* Landmarks: the three services that place landmarks in a face box.
   Coordinates are in hundredths of a pixel. *)

\* FacialFeaturesService._detect_facial_landmarks, from the face it chose on.
_detect_facial_landmarks(x, y, w, h) ==
    [left_eye     |-> <<100 * x + 35 * w, 100 * y + 35 * h>>,
     right_eye    |-> <<100 * x + 65 * w, 100 * y + 35 * h>>,
     nose_tip     |-> <<100 * x + 50 * w, 100 * y + 55 * h>>,
     mouth_center |-> <<100 * x + 50 * w, 100 * y + 75 * h>>,
     left_mouth   |-> <<100 * x + 40 * w, 100 * y + 75 * h>>,
     right_mouth  |-> <<100 * x + 60 * w, 100 * y + 75 * h>>,
     chin         |-> <<100 * x + 50 * w, 100 * y + 95 * h>>,
     left_cheek   |-> <<100 * x + 25 * w, 100 * y + 60 * h>>,
     right_cheek  |-> <<100 * x + 75 * w, 100 * y + 60 * h>>,
     forehead     |-> <<100 * x + 50 * w, 100 * y + 15 * h>>,
     face_bounds  |-> <<100 * x, 100 * y, 100 * w, 100 * h>>]

\* ExpressionAnalysisService._estimate_landmarks
_estimate_landmarks(x, y, w, h) ==
    [left_eye      |-> <<100 * x + 35 * w, 100 * y + 35 * h>>,
     right_eye     |-> <<100 * x + 65 * w, 100 * y + 35 * h>>,
     left_eyebrow  |-> <<100 * x + 30 * w, 100 * y + 25 * h>>,
     right_eyebrow |-> <<100 * x + 70 * w, 100 * y + 25 * h>>,
     nose_tip      |-> <<100 * x + 50 * w, 100 * y + 55 * h>>,
     mouth_left    |-> <<100 * x + 35 * w, 100 * y + 75 * h>>,
     mouth_right   |-> <<100 * x + 65 * w, 100 * y + 75 * h>>,
     mouth_center  |-> <<100 * x + 50 * w, 100 * y + 75 * h>>,
     chin          |-> <<100 * x + 50 * w, 100 * y + 90 * h>>,
     left_cheek    |-> <<100 * x + 25 * w, 100 * y + 60 * h>>,
     right_cheek   |-> <<100 * x + 75 * w, 100 * y + 60 * h>>]

LandmarkServices == {"face_detection", "facial_features", "expression"}

\* The face boxes a cascade reports: x, y, w, h in pixels.
LandmarkBoxes == (0..2) \X (0..2) \X {30, 40, 100, 200} \X {30, 50, 200}

\* The landmark set a service derives from a face box.
DerivedLandmarks(service, b) ==
    CASE service = "face_detection" ->
            _extract_basic_landmarks([x |-> b[1], y |-> b[2],
                                      width |-> b[3], height |-> b[4]])
      [] service = "facial_features" ->
            _detect_facial_landmarks(b[1], b[2], b[3], b[4])
      [] service = "expression" ->
            _estimate_landmarks(b[1], b[2], b[3], b[4])

\* One service derives its landmarks from one face box.
DeriveLandmarks ==
    /\ NoEstimatorCalled
    /\ \E service \in LandmarkServices, b \in LandmarkBoxes :
          /\ f_call' = Some([op |-> "landmarks", service |-> service, box |-> b])
          /\ f_out' = Some(DerivedLandmarks(service, b))
    /\ UNCHANGED <<detectVars, ageVars, skinVars, exprVars, httpVars, procVars>>

----------------------------------------------------------------------------
(* Specifications *)

Init ==
    /\ d_image = None /\ d_report = None
    /\ a_in = None /\ a_report = None
    /\ s_call = None /\ s_out = None /\ s_params = {} /\ s_ran = {}
    /\ f_call = None /\ f_out = None
    /\ x_call = None /\ x_out = None
    /\ endpoint = "none" /\ pc = "idle"
    /\ files = <<>> /\ loop_i = 0
    /\ face_detection_result = None
    /\ started = {}
    /\ task_result = [t \in Analyses |-> None]
    /\ results = <<>>
    /\ reads = {} /\ invoked = {}
    /\ response = None
    /\ rng = 0 /\ tables = ServiceTables /\ calls = <<>>

\* The face detection service alone, called on any image.
NextDetect == DetectFaces
SpecDetect == Init /\ [][NextDetect]_vars

\* The age estimation service alone, called on any input.
NextAge == EstimateAge
SpecAge == Init /\ [][NextAge]_vars

\* One request to /analyze/comprehensive, to /analyze/batch or to one of
\* the single-analysis endpoints.
Next ==
    \/ ComprehensiveCheck
    \/ ComprehensiveRead
    \/ ComprehensiveDetect
    \/ \E t \in Analyses : ComprehensiveTask(t)
    \/ ComprehensiveCombine
    \/ BatchStart
    \/ BatchItem
    \/ BatchReturn
    \/ SingleAnalysis
Spec == Init /\ [][Next]_vars

\* The skin analysis service alone: its estimators one by one, and
\* analyze_skin as a whole.
NextSkin ==
    \/ SkinEstimator \/ AnalyzeSkinGated \/ AnalyzeSkinEstimated
    \/ DetermineSkinType \/ GenerateRecommendations
SpecSkin == Init /\ [][NextSkin]_vars

\* Every estimator of the four services, called once on any region.
NextEstimators ==
    SkinEstimator \/ AgeIndicator \/ ActionUnitScorer \/ FeatureClassifier
SpecEstimators == Init /\ [][NextEstimators]_vars

\* The expression analysis service alone, called on any action units.
NextExpression == AnalyzeExpression
SpecExpression == Init /\ [][NextExpression]_vars

\* The landmark placement of the three services, on any face box.
NextLandmarks == DeriveLandmarks
SpecLandmarks == Init /\ [][NextLandmarks]_vars

\* The face shape analyzer alone, called on any face box.
NextShape == AnalyzeFaceShape
SpecShape == Init /\ [][NextShape]_vars

\* The services of one process, called one after the other on any pictures.
NextProcess == ServiceCall
SpecProcess == Init /\ [][NextProcess]_vars

----------------------------------------------------------------------------
(* Properties of the HTTP handlers (Spec) *)

\* C1: in the comprehensive flow none of the four analyses is started
\* before detect_faces has returned; if it returned has_face = false the
\* request is rejected with status 400, the detail carries the
\* face_detection sub-report, and none of the four analyses is started.
C1_AnalysesGatedByFaceDetection ==
    endpoint = "comprehensive" =>
       /\ (started # {} \/ invoked \cap Analyses # {}) =>
             /\ face_detection_result # None
             /\ "detect_faces" \in invoked
       /\ (face_detection_result # None
             /\ ~face_detection_result[1].face_detection.has_face) =>
             /\ started = {}
             /\ invoked \cap Analyses = {}
             /\ \A t \in Analyses : task_result[t] = None
             /\ pc = "done"
             /\ response # None
             /\ response[1].status = 400
             /\ "face_detection" \in DOMAIN response[1].detail
             /\ response[1].detail.face_detection
                   = face_detection_result[1].face_detection

\* A comprehensive request whose picture has no face has been rejected.
C1_Witness ==
    /\ endpoint = "comprehensive"
    /\ face_detection_result # None
    /\ ~face_detection_result[1].face_detection.has_face
    /\ response # None /\ response[1].status = 400

\* Processing this upload raises: it has no content type to test, or it is
\* an image by content type that cannot be decoded.
ItemRaises(file) ==
    \/ file.content_type = None
    \/ /\ file.content_type[1][1] = "image"
       /\ Decode(file.contents) = None

\* The positions in results of the entries for input position i (from 0).
EntriesOf(i) == {k \in 1..Len(results) : results[k].file_index = i}

\* C2: in a batch of at most 10 files an exception on item i does not
\* abort the batch: the response is returned with status 200; item i has
\* one entry with file_index i, its filename and an error and no analysis;
\* every other image item has its own entry, the one it gets when
\* processed alone at that position.
C2_BatchItemFailureIsolated ==
    (endpoint = "batch" /\ Len(files) <= 10) =>
       /\ pc = "done" =>
             /\ loop_i = Len(files)
             /\ response # None /\ response[1].status = 200
             /\ response[1].body.batch_results = results
       /\ \A i \in 0..(Len(files) - 1) :
             i < loop_i =>
                LET file == files[i + 1]
                IN  IF ItemRaises(file)
                    THEN /\ Cardinality(EntriesOf(i)) = 1
                         /\ \A k \in EntriesOf(i) :
                               /\ DOMAIN results[k] = {"file_index", "filename", "error"}
                               /\ results[k].filename = file.filename
                    ELSE file.content_type[1][1] = "image" =>
                         /\ Cardinality(EntriesOf(i)) = 1
                         /\ \A k \in EntriesOf(i) :
                               /\ DOMAIN results[k] = {"file_index", "filename", "analysis"}
                               /\ results[k] \in {o.entry : o \in batch_item(i, file)}

\* A batch has been answered in which an item that raised lies between two
\* analysed pictures.
C2_Witness ==
    /\ endpoint = "batch" /\ pc = "done" /\ response[1].status = 200
    /\ \E i \in 2..(Len(files) - 1) :
          /\ ItemRaises(files[i])
          /\ \E k \in 1..Len(results) :
                results[k].file_index = i - 1 /\ "error" \in DOMAIN results[k]
          /\ \E k \in 1..Len(results) :
                results[k].file_index = i - 2 /\ "analysis" \in DOMAIN results[k]
          /\ \E k \in 1..Len(results) :
                results[k].file_index = i /\ "analysis" \in DOMAIN results[k]

\* C3: a batch of more than 10 files is rejected outright whatever the
\* files are: no file is read, no service is invoked, and the answer is an
\* error without a batch_results list.
C3_OversizedBatchRejected ==
    (endpoint = "batch" /\ Len(files) > 10) =>
       /\ reads = {}
       /\ invoked = {}
       /\ results = <<>>
       /\ loop_i = 0
       /\ pc = "done"
       /\ response # None
       /\ response[1].status >= 400
       /\ "body" \notin DOMAIN response[1]

\* A batch of 11 uploads, decodable pictures among them, has been rejected.
C3_Witness ==
    /\ endpoint = "batch" /\ Len(files) = 11 /\ pc = "done"
    /\ \E i \in 1..Len(files) : files[i].contents = "portrait bytes"
    /\ \E i \in 1..Len(files) : files[i].contents = "plain text"
    /\ response[1].status >= 400

\* C4: in batch mode an upload whose content type does not start with
\* 'image/' produces no element of batch_results; the others keep their
\* input position as file_index, so batch_results is ordered by strictly
\* increasing file_index, has at most one element per input file, and each
\* element has exactly one of 'analysis' and 'error'.
C4_BatchSkipsNonImages ==
    endpoint = "batch" =>
       /\ \A i \in 1..Len(files) :
             (files[i].content_type # None
                /\ files[i].content_type[1][1] # "image") => EntriesOf(i - 1) = {}
       /\ \A k \in 1..Len(results) :
             /\ results[k].file_index \in 0..(Len(files) - 1)
             /\ results[k].filename = files[results[k].file_index + 1].filename
             /\ ("analysis" \in DOMAIN results[k]) # ("error" \in DOMAIN results[k])
             /\ k < Len(results) => results[k].file_index < results[k + 1].file_index
       /\ \A i \in 0..(Len(files) - 1) : Cardinality(EntriesOf(i)) <= 1
       /\ (pc = "done" /\ response[1].status = 200) =>
             response[1].body.batch_results = results

\* A batch has been answered in which a text upload lies between two
\* uploads that have entries, at positions two apart.
C4_Witness ==
    /\ endpoint = "batch" /\ pc = "done" /\ response[1].status = 200
    /\ \E i \in 2..(Len(files) - 1) :
          /\ files[i].content_type = <<(<<"text", "plain">>)>>
          /\ EntriesOf(i - 1) = {}
          /\ \E k \in 1..(Len(results) - 1) :
                /\ results[k].file_index = i - 2
                /\ results[k + 1].file_index = i

----------------------------------------------------------------------------
(* Properties of the face detection service (SpecDetect) *)

DetReport == d_report[1].face_detection
DetImage  == d_image[1]

\* C5: every report of detect_faces is internally consistent: has_face
\* exactly when face_count > 0, face_count = number of bounding boxes,
\* landmarks present exactly when has_face, confidence 0 exactly when
\* has_face is false; and when the detector returns no box the report has
\* has_face false, confidence 0, no bounding box, no landmarks and a
\* non-empty message.
C5_DetectReportConsistent ==
    d_report # None =>
        /\ DetReport.has_face <=> DetReport.face_count > 0
        /\ DetReport.face_count = Len(DetReport.bounding_boxes)
        /\ DetReport.landmarks # None <=> DetReport.has_face
        /\ DetReport.confidence = 0 <=> ~DetReport.has_face
        /\ DetImage.faces = <<>> =>
              /\ DetReport.has_face = FALSE
              /\ DetReport.confidence = 0
              /\ DetReport.bounding_boxes = <<>>
              /\ DetReport.landmarks = None
              /\ DetReport.message # ""

\* The detector ran without error and found no box.
C5_Witness ==
    /\ d_report # None
    /\ DetImage.cv_ok /\ DetImage.faces = <<>>
    /\ ~DetReport.has_face

\* The confidence the specification prescribes for a box of area `area` in
\* an image: min(1, 0.5 + s + r + b).
PrescribedConfidence(area, image) ==
    LET w == image.width_height[1]
        h == image.width_height[2]
        s == IF 10 * area > w * h THEN 3000
             ELSE IF 20 * area > w * h THEN 2000 ELSE 1000
        r == IF w >= 640 /\ h >= 480 THEN 1000
             ELSE IF w >= 320 /\ h >= 240 THEN 500 ELSE 0
        b == IF image.brightness >= 50 /\ image.brightness <= 200 THEN 1000 ELSE 0
    IN  Min2(One, 5000 + s + r + b)

MaxArea(boxes) ==
    CHOOSE a \in {boxes[i].width * boxes[i].height : i \in 1..Len(boxes)} :
        \A i \in 1..Len(boxes) : boxes[i].width * boxes[i].height <= a

\* C6: with at least one box detected, confidence = min(1, 0.5 + s + r + b)
\* for the size factor s of the largest face area, the resolution factor r
\* and the brightness factor b (50 and 200 included); it lies in [0, 1].
C6_ConfidenceFormula ==
    (d_report # None /\ DetReport.has_face) =>
        /\ DetReport.confidence =
              PrescribedConfidence(MaxArea(DetReport.bounding_boxes), DetImage)
        /\ DetReport.confidence >= 0 /\ DetReport.confidence <= One

\* A face whose area is exactly 10% of the image (size factor 0.2, not 0.3)
\* in a report whose brightness sits on the bound 200.
C6_Witness ==
    /\ d_report # None /\ DetReport.has_face
    /\ 10 * MaxArea(DetReport.bounding_boxes)
         = DetImage.width_height[1] * DetImage.width_height[2]
    /\ DetImage.brightness = 200
    /\ DetReport.confidence = 8000

\* C7: for a non-empty detection the primary face, whose landmarks are
\* reported and whose area feeds the size factor, is the first detected box
\* among those of maximal area.
C7_PrimaryFaceIsFirstLargest ==
    (d_report # None /\ DetReport.has_face) =>
        \E i \in 1..Len(DetReport.bounding_boxes) :
            LET bb == DetReport.bounding_boxes
                area(k) == bb[k].width * bb[k].height
            IN  /\ \A j \in 1..Len(bb) : area(j) <= area(i)
                /\ \A j \in 1..(i - 1) : area(j) < area(i)
                /\ DetReport.landmarks = Some(_extract_basic_landmarks(bb[i]))
                /\ DetReport.confidence = PrescribedConfidence(area(i), DetImage)

\* Two boxes of equal area at different places, and the first one is used.
C7_Witness ==
    /\ d_report # None /\ DetReport.face_count = 2
    /\ LET bb == DetReport.bounding_boxes
       IN  /\ bb[1] # bb[2]
           /\ bb[1].width * bb[1].height = bb[2].width * bb[2].height
           /\ DetReport.landmarks = Some(_extract_basic_landmarks(bb[1]))
           /\ DetReport.landmarks # Some(_extract_basic_landmarks(bb[2]))

----------------------------------------------------------------------------
(* Properties of the age estimation service (SpecAge) *)

AgeReport == a_report[1].age_estimation
AgeIn     == a_in[1]

\* C9: every age report (computed or default), whatever the six indicators,
\* has estimated_age, min_age and max_age in [18, 80],
\* min_age <= most_likely <= max_age, min_age = max(18, age - 5) and
\* max_age = min(80, age + 5) for the estimate age = most_likely, of which
\* estimated_age is the rounding to one decimal.
C9_AgeWithinBounds ==
    a_report # None =>
        LET r == AgeReport.age_range
        IN  /\ Years(18) <= AgeReport.estimated_age /\ AgeReport.estimated_age <= Years(80)
            /\ Years(18) <= r.min_age /\ r.min_age <= Years(80)
            /\ Years(18) <= r.max_age /\ r.max_age <= Years(80)
            /\ r.min_age <= r.most_likely /\ r.most_likely <= r.max_age
            /\ r.min_age = Max2(Years(18), r.most_likely - Years(5))
            /\ r.max_age = Min2(Years(80), r.most_likely + Years(5))
            /\ 20 * (AgeReport.estimated_age - r.most_likely) <= AgeOne
            /\ 20 * (r.most_likely - AgeReport.estimated_age) <= AgeOne

\* A computed report whose weighted sum lay above 80 (an indicator above 1)
\* and was clamped.
C9_Witness ==
    /\ a_report # None /\ AgeIn.face /\ ~AgeIn.raises
    /\ AgeIn.wrinkle_score > One
    /\ AgeReport.estimated_age = Years(80)
    /\ AgeReport.age_range.max_age = Years(80)
    /\ AgeReport.age_range.min_age = Years(75)

\* The label the fixed breakpoints assign to an age.
BreakpointLabel(age) ==
    IF age < Years(25) THEN "Young Adult (18-24)"
    ELSE IF age < Years(35) THEN "Adult (25-34)"
    ELSE IF age < Years(45) THEN "Middle-aged (35-44)"
    ELSE IF age < Years(55) THEN "Mature (45-54)"
    ELSE IF age < Years(65) THEN "Senior (55-64)"
    ELSE "Elderly (65+)"

\* C10: in every age report the age_group label is the one the fixed
\* breakpoints (25, 35, 45, 55, 65) assign to the reported estimated_age.
C10_GroupMatchesReportedAge ==
    a_report # None =>
        AgeReport.age_group = BreakpointLabel(AgeReport.estimated_age)


----------------------------------------------------------------------------
(* Properties of the skin analysis service (SpecSkin) *)

\* The fields of an estimator output that hold a score.
ScoreFields ==
    {"score", "severity", "level", "redness", "oiliness", "roughness", "value"}

\* The severity band of a 0-100 score, as the bands are prescribed.
PrescribedBand(ui) ==
    IF ui < 30 * 100 THEN "Low"
    ELSE IF 30 * 100 <= ui /\ ui < 70 * 100 THEN "Medium"
    ELSE "High"

\* C8: every score an estimator returns (normal path, empty mask, except
\* branch) lies in [0,1]; every raw score handed to _create_skin_parameter
\* lies in [0,1], and the FeatureScore made of it has ui = clamp(raw*100,
\* 0, 100) (to one decimal), severity Low below 30, Medium from 30 to
\* below 70, High otherwise, and a confidence in [0,1].
C8_FeatureScoreBands ==
    /\ (s_call # None /\ s_call[1].op \in Estimators) =>
          \A k \in DOMAIN s_out[1] \cap ScoreFields :
             0 <= s_out[1][k] /\ s_out[1][k] <= One
    /\ \A p \in s_params :
          LET raw == p[1]
              fs  == p[2]
              ui  == IF raw < 0 THEN 0 ELSE IF raw > One THEN One ELSE raw
          IN  /\ 0 <= raw /\ raw <= One
              /\ fs.ui_score \in RoundSet(ui, 10)
              /\ fs.severity = PrescribedBand(ui)
              /\ 0 <= fs.confidence /\ fs.confidence <= One

\* analyze_skin has turned an estimator output of exactly 0.3 into a
\* Medium FeatureScore and one of at least 0.7 into a High one.
C8_Witness ==
    /\ s_call # None /\ s_call[1].op = "analyze_skin"
    /\ \E p \in s_params : p[1] = 3000 /\ p[2].severity = "Medium"
    /\ \E p \in s_params : p[1] >= 7000 /\ p[2].severity = "High"


\* The rules of the skin-type list, in priority order: <<label, holds>>.
SkinTypeRules(oiliness, acne, moisture) ==
    << <<"Oily",        oiliness > 6000 /\ acne > 4000>>,
       <<"Dry",         oiliness < 3000 /\ moisture < 4000>>,
       <<"Combination", oiliness > 6000 /\ moisture < 4000>>,
       <<"Sensitive",   acne > 5000>>,
       <<"Normal",      TRUE>> >>

\* C11: _determine_skin_type returns the label of the first rule that holds
\* in the list Oily, Dry, Combination, Sensitive, Normal; oiliness 0.7,
\* acne 0.5, moisture 0.3 gives Oily.
C11_SkinTypeFirstRuleWins ==
    (s_call # None /\ s_call[1].op = "_determine_skin_type") =>
       LET c     == s_call[1]
           rules == SkinTypeRules(
                       IF "oiliness" \in DOMAIN c.texture THEN c.texture.oiliness ELSE 5000,
                       IF "severity" \in DOMAIN c.acne THEN c.acne.severity ELSE 5000,
                       IF "level" \in DOMAIN c.moisture THEN c.moisture.level ELSE 5000)
       IN  /\ \E i \in 1..Len(rules) :
                /\ rules[i][2]
                /\ \A k \in 1..(i - 1) : ~rules[k][2]
                /\ s_out[1] = rules[i][1]
           /\ (c.texture = [oiliness |-> 7000] /\ c.acne = [severity |-> 5000]
                 /\ c.moisture = [level |-> 3000]) => s_out[1] = "Oily"

\* _determine_skin_type has been called with oiliness 0.7, acne 0.5 and
\* moisture 0.3, where both the Oily and the Combination rule hold.
C11_Witness ==
    /\ s_call # None /\ s_call[1].op = "_determine_skin_type"
    /\ s_call[1].texture = [oiliness |-> 7000]
    /\ s_call[1].acne = [severity |-> 5000]
    /\ s_call[1].moisture = [level |-> 3000]
    /\ s_out = <<"Oily">>


\* C12: with a face detected and less than 5% of the pixels in the skin
\* mask, analyze_skin runs no estimator and returns the defaulted report
\* (has_face false, skin_coverage 0, skin_type Unknown, overall_health 0,
\* twelve hd_* parameters of raw score 0, no treatment); at exactly 5% the
\* gate is not taken and the estimators run.
C12_LowCoverageGated ==
    (s_call # None /\ s_call[1].op = "analyze_skin"
        /\ s_call[1].in.face_detected /\ ~s_call[1].in.raises) =>
       LET r == s_out[1].skin_analysis
       IN  /\ s_call[1].in.coverage < 500 =>
                /\ s_ran = {}
                /\ r.has_face = FALSE
                /\ r.skin_coverage = 0
                /\ r.skin_type = "Unknown"
                /\ r.overall_health = 0
                /\ Cardinality({k \in DOMAIN r : k \in
                      {"hd_redness", "hd_oiliness", "hd_age_spots", "hd_radiance",
                       "hd_moisture", "hd_dark_circles", "hd_eye_bags",
                       "hd_firmness", "hd_texture", "hd_acne", "hd_pores",
                       "hd_wrinkles"} /\ r[k].raw_score = 0}) = 12
                /\ r.recommended_treatments = <<>>
           /\ s_call[1].in.coverage = 500 =>
                Cardinality(s_ran) = 11

\* analyze_skin has returned the defaulted report for a detected face with
\* just under 5% skin.
C12_Witness ==
    /\ s_call # None /\ s_call[1].op = "analyze_skin"
    /\ s_call[1].in.face_detected /\ ~s_call[1].in.raises
    /\ s_call[1].in.coverage = 499
    /\ s_out[1].skin_analysis.skin_type = "Unknown"


\* C13: with a face detected and at least 5% of the pixels in the skin
\* mask, analyze_skin returns a report with has_face and face_detected
\* true, the measured skin_coverage, and hd_* parameters built from the
\* estimator outputs, not the no-face default.
C13_EnoughCoverageReportsEstimates ==
    (s_call # None /\ s_call[1].op = "analyze_skin"
        /\ s_call[1].in.face_detected /\ ~s_call[1].in.raises
        /\ s_call[1].in.coverage >= 500) =>
       LET r == s_out[1].skin_analysis
           a == s_call[1].in.a
       IN  /\ r.has_face = TRUE
           /\ r.face_detected = TRUE
           /\ r.skin_coverage = s_call[1].in.coverage
           /\ s_out[1] # _get_no_face_analysis_result
           /\ <<a.color.redness, r.hd_redness>> \in s_params
           /\ <<a.texture.oiliness, r.hd_oiliness>> \in s_params


\* C14: every report analyze_skin returns conforms to SkinAnalysisResult:
\* it has every required field, its skin_type is a SkinType and its
\* undertone an Undertone.
C14_SkinReportConformsToSchema ==
    (s_call # None /\ s_call[1].op = "analyze_skin") =>
       ValidSkinAnalysisResult(s_out[1].skin_analysis)

----------------------------------------------------------------------------
(* C15: every estimator returns its default on an empty region *)

\* The default an estimator of the skin service documents for a mask with
\* no pixel selected, and how far a draw may move it.
SkinDefaults ==
    [analyze_texture    |-> [score |-> 5000, roughness |-> 4000, oiliness |-> 3000],
     analyze_pores      |-> [severity |-> 3000],
     analyze_wrinkles   |-> [severity |-> 2500],
     analyze_acne       |-> [severity |-> 2000],
     analyze_skin_color |-> [redness |-> 3000],
     _analyze_moisture  |-> [level |-> 4000],
     _analyze_radiance  |-> [score |-> 5000],
     _analyze_firmness  |-> [score |-> 6000],
     _analyze_age_spots |-> [severity |-> 3000],
     _analyze_dark_circles |-> [value |-> 2000],
     _analyze_eye_bags  |-> [value |-> 1500]]
DrawWidth == 1000

\* A skin estimator called on an empty mask returned its default score
\* (up to the draw added to it) with confidence 0.3.
SkinEmptyDefault ==
    (s_call # None /\ s_call[1].op \in Estimators /\ s_call[1].mode = "empty") =>
        LET out    == s_out[1]
            expect == SkinDefaults[s_call[1].op]
        IN  /\ "confidence" \in DOMAIN out
            /\ out.confidence = 3000
            /\ \A k \in DOMAIN expect :
                  /\ k \in DOMAIN out
                  /\ out[k] >= expect[k] - DrawWidth
                  /\ out[k] <= expect[k] + DrawWidth

\* An age indicator called on an empty region returned 0.0.
AgeEmptyDefault ==
    (a_in # None /\ "op" \in DOMAIN a_in[1]) =>
        LET op     == a_in[1].op
            region == a_in[1].region
            empty  == \/ RegionSize(region) = 0
                      \/ op = "_analyze_hair_characteristics" /\ ~region.bbox
        IN  empty => a_report[1] = 0

\* An action-unit scorer whose regions are all empty returned 0.0.
UnitEmptyDefault ==
    (x_call # None) =>
        LET regions == x_call[1].regions
        IN  (\A i \in DOMAIN regions : regions[i].size = 0) => x_out[1] = 0

\* The label each feature classifier documents for an empty region.
FeatureDefaults ==
    [_analyze_eye_shape |-> "Almond", _analyze_eye_size |-> "Average",
     _analyze_eye_color |-> <<"Brown", "#8B4513">>,
     _analyze_open_probability |-> 5000,
     _analyze_nose_width |-> "Average", _analyze_nose_length |-> "Average",
     _analyze_lip_shape |-> "Average", _analyze_lip_fullness |-> "Average",
     _analyze_jawline_definition |-> "Average"]

\* A feature classifier called on an empty region returned its default label.
FeatureEmptyDefault ==
    (f_call # None /\ RegionSize(f_call[1].region) = 0) =>
        f_out[1] = FeatureDefaults[f_call[1].op]

\* C15: every estimator given an empty region or a mask with no pixel
\* selected returns its default value: each skin estimator its default score
\* with confidence 0.3, each age indicator 0.0, each action-unit scorer 0.0,
\* each feature classifier its default label.
C15_EmptyRegionReturnsDefault ==
    /\ SkinEmptyDefault
    /\ AgeEmptyDefault
    /\ UnitEmptyDefault
    /\ FeatureEmptyDefault

----------------------------------------------------------------------------
(* C16: a lowered estimator confidence reaches the FeatureScore *)

\* The confidences _create_skin_parameter can report for a raw score.
ReportedConfidences(raw_score) ==
    {fs.confidence : fs \in _create_skin_parameter(raw_score)}

\* The confidence an estimator reports with a substituted default.
LoweredConfidence == 3000

\* The analyses whose FeatureScore analyze_skin builds before the report
\* is assembled, with the key read from each.
ScoredAnalyses(a) == {<<a.color, "redness">>, <<a.texture, "oiliness">>}

\* C16: when an estimator substituted its default and lowered its
\* confidence, the FeatureScore built from its score has a confidence
\* strictly below the one reported for a normally computed score of the
\* same parameter.
C16_LoweredConfidenceReported ==
    (/\ s_call # None
     /\ s_call[1].op = "analyze_skin"
     /\ ~s_call[1].in.raises
     /\ s_call[1].in.face_detected
     /\ ~insufficient_coverage(s_call[1].in.coverage)) =>
        \A item \in ScoredAnalyses(s_call[1].in.a) :
            item[1].confidence = LoweredConfidence =>
                \A p \in s_params :
                    p[1] = item[1][item[2]] =>
                        \A normal \in Unit01 :
                            \A c \in ReportedConfidences(normal) :
                                p[2].confidence < c

----------------------------------------------------------------------------
(* C17: emotions, dominant emotion and intensity from the action units *)

\* c (in 1/One, three decimals) is the mean total / n, to the three
\* decimals the report keeps.
IsMean(c, total, n) ==
    /\ c % 10 = 0
    /\ n * c - total <= 5 * n
    /\ total - n * c <= 5 * n

\* The action units each emotion is prescribed to average.
PrescribedUnits ==
    [happy |-> {"AU6", "AU12"}, sad |-> {"AU15", "AU1"}, angry |-> {"AU4", "AU15"},
     surprise |-> {"AU1", "AU2", "AU5", "AU25"}, fear |-> {"AU1", "AU5", "AU20"},
     disgust |-> {"AU9", "AU10"}]
PrescribedOrder ==
    <<"happy", "sad", "angry", "surprise", "fear", "disgust", "neutral">>

ExprCall   == x_call[1]
ExprReport == x_out[1].expression_analysis
ExprComputed ==
    x_call # None /\ x_call[1].op = "analyze_expression" /\ x_call[1].face

\* C17: for every map of action-unit scores in [0,1] the seven emotion
\* confidences are the prescribed means (neutral is 1 - the mean of all
\* units), the dominant emotion is the first of the seven, in their order,
\* whose confidence no other exceeds, and the expression intensity is the
\* mean of all units.
C17_EmotionsFromActionUnits ==
    ExprComputed =>
        LET au       == ExprCall.action_units
            emotions == ExprReport.emotions
            total(S) == SumUnits(au, S)
            first    == CHOOSE i \in 1..7 :
                           /\ \A k \in 1..7 : emotions[k].confidence <= emotions[i].confidence
                           /\ \A k \in 1..(i - 1) :
                                 emotions[k].confidence < emotions[i].confidence
        IN  /\ Len(emotions) = 7
            /\ \A i \in 1..7 : emotions[i].name = PrescribedOrder[i]
            /\ \A i \in 1..6 :
                  IsMean(emotions[i].confidence,
                         total(PrescribedUnits[PrescribedOrder[i]]),
                         Cardinality(PrescribedUnits[PrescribedOrder[i]]))
            /\ IsMean(One - emotions[7].confidence, total(ActionUnits), 14)
            /\ ExprReport.dominant_emotion = emotions[first].name
            /\ IsMean(ExprReport.expression_intensity, total(ActionUnits), 14)

\* A computed report in which two emotions share the highest confidence
\* and the earlier one is reported as dominant.
C17_Witness ==
    /\ ExprComputed
    /\ ExprReport.dominant_emotion = "sad"
    /\ ExprReport.emotions[2].confidence = ExprReport.emotions[3].confidence
    /\ ExprReport.emotions[2].confidence > ExprReport.emotions[1].confidence
    /\ ExprReport.emotions[2].confidence > 0
    /\ ExprReport.expression_intensity > 0

----------------------------------------------------------------------------
(* C18: the face shape and its confidence *)

ShapeCall == f_call[1].landmarks
ShapeOut  == f_out[1]
ShapeAnalyzed ==
    /\ f_call # None
    /\ f_call[1].op = "FaceShapeAnalyzer.analyze"
    /\ f_call[1].landmarks.bounds
    /\ f_call[1].landmarks.w > 0

\* The ranges height / width lies strictly inside.
InteriorShapes(w, h) ==
    {s \in DOMAIN shape_ratios :
        shape_ratios[s][1] * w < 10 * h /\ 10 * h < shape_ratios[s][2] * w}

\* c (in 1/One) is 1 - |h/w - centre| / (half the width) of the range of s,
\* to the three decimals reported.
IsRangeConfidence(c, s, w, h) ==
    LET lo   == shape_ratios[s][1]
        hi   == shape_ratios[s][2]
        d    == 20 * h - (lo + hi) * w
        dist == IF d >= 0 THEN d ELSE -d
        den  == (hi - lo) * w
        \* den * (One - c) against One * dist, within half a unit of 0.001
        gap  == den * (One - c) - One * dist
    IN  c % 10 = 0 /\ gap <= 5 * den /\ -gap <= 5 * den

\* C18: for every face box with width > 0 the type is one of the six shapes
\* and the confidence lies in [0,1]; a forehead / jaw width ratio above 1.15
\* gives Heart and one below 0.85 gives Diamond; otherwise the confidence is
\* 1 minus the normalised distance of height / width from the centre of the
\* winning range, and when height / width lies in no range, or only on a
\* range boundary, the result is Oval with confidence 0.
C18_FaceShapeFromAspectRatio ==
    ShapeAnalyzed =>
        LET w  == ShapeCall.w
            h  == ShapeCall.h
            jw == _analyze_jawline_width(ShapeCall)
            fw == _analyze_forehead_width(ShapeCall)
            refined == Truthy(jw) /\ Truthy(fw)
        IN  /\ ShapeOut.type \in DOMAIN shape_ratios
            /\ 0 <= ShapeOut.confidence /\ ShapeOut.confidence <= One
            /\ IF refined /\ 100 * fw[1] > 115 * jw[1] THEN ShapeOut.type = "Heart"
               ELSE IF refined /\ 100 * fw[1] < 85 * jw[1] THEN ShapeOut.type = "Diamond"
               ELSE IF InteriorShapes(w, h) = {}
                    THEN ShapeOut.type = "Oval" /\ ShapeOut.confidence = 0
               ELSE /\ ShapeOut.type \in InteriorShapes(w, h)
                    /\ IsRangeConfidence(ShapeOut.confidence, ShapeOut.type, w, h)

----------------------------------------------------------------------------
(* C19: the deterministic analyses repeat their reports *)

DeterministicAnalyses ==
    {"detect_faces", "estimate_age", "analyze_expression", "analyze_features"}

----------------------------------------------------------------------------
(* C20: no call changes process-wide state *)

\* C20: after any sequence of service calls every process-wide variable,
\* the service fields and the state of the module-level random generator,
\* has the value it had before the sequence.
C20_CallsLeaveProcessStateUnchanged ==
    /\ tables = ServiceTables
    /\ rng = 0

----------------------------------------------------------------------------
(* C21: the sub-analyses of a comprehensive request and the gate's face *)

\* The "no face found" defaults of the four analyses.
NoFaceDefaults ==
    [analyze_skin       |-> _get_no_face_analysis_result,
     analyze_features   |-> _get_default_features_analysis,
     estimate_age       |-> _get_default_age_estimation,
     analyze_expression |-> _get_default_expression_analysis]

\* The sub-reports of a comprehensive response, by the analysis they hold.
SubReports(body) ==
    [analyze_skin       |-> body.skin_analysis,
     analyze_features   |-> body.facial_features,
     estimate_age       |-> body.age_estimation,
     analyze_expression |-> body.expression_analysis]

\* C21: in a comprehensive response whose gate reports has_face = true, no
\* sub-report (skin, features, age, expression) is the "no face found"
\* default of its service.
C21_SubReportsUseTheGateFace ==
    (/\ endpoint = "comprehensive"
     /\ response # None
     /\ response[1].status = 200
     /\ response[1].body.face_detection.face_detection.has_face) =>
        \A t \in Analyses :
            SubReports(response[1].body)[t] # NoFaceDefaults[t]

----------------------------------------------------------------------------
(* C22: the landmark positions of the three services *)

\* The landmarks the claim names, as each service emits them: the point
\* at hundredths of a pixel, or None where the service emits no such point.
\* The face detection service emits the nose tip as nose[0], the mouth
\* centre as mouth[1] and the chin as jawline[2], and no cheeks.
Emitted(service, lm) ==
    IF service = "face_detection"
    THEN [left_eye     |-> Some(<<lm.left_eye[1].x, lm.left_eye[1].y>>),
          right_eye    |-> Some(<<lm.right_eye[1].x, lm.right_eye[1].y>>),
          nose_tip     |-> Some(<<lm.nose[1].x, lm.nose[1].y>>),
          mouth_center |-> Some(<<lm.mouth[2].x, lm.mouth[2].y>>),
          chin         |-> Some(<<lm.jawline[3].x, lm.jawline[3].y>>),
          left_cheek   |-> None,
          right_cheek  |-> None]
    ELSE [left_eye     |-> Some(lm.left_eye),
          right_eye    |-> Some(lm.right_eye),
          nose_tip     |-> Some(lm.nose_tip),
          mouth_center |-> Some(lm.mouth_center),
          chin         |-> Some(lm.chin),
          left_cheek   |-> Some(lm.left_cheek),
          right_cheek  |-> Some(lm.right_cheek)]

\* The positions the claim gives, in hundredths of a pixel.
ClaimedLandmarks(b) ==
    [left_eye     |-> <<100 * b[1] + 35 * b[3], 100 * b[2] + 35 * b[4]>>,
     right_eye    |-> <<100 * b[1] + 65 * b[3], 100 * b[2] + 35 * b[4]>>,
     nose_tip     |-> <<100 * b[1] + 50 * b[3], 100 * b[2] + 55 * b[4]>>,
     mouth_center |-> <<100 * b[1] + 50 * b[3], 100 * b[2] + 75 * b[4]>>,
     chin         |-> <<100 * b[1] + 50 * b[3], 100 * b[2] + 95 * b[4]>>,
     left_cheek   |-> <<100 * b[1] + 25 * b[3], 100 * b[2] + 60 * b[4]>>,
     right_cheek  |-> <<100 * b[1] + 75 * b[3], 100 * b[2] + 60 * b[4]>>]

\* C22: every landmark set a service derives from a face box (x, y, w, h)
\* has its eyes at (x+0.35w, y+0.35h) and (x+0.65w, y+0.35h), its nose tip
\* at (x+0.5w, y+0.55h), its mouth centre at (x+0.5w, y+0.75h), its chin at
\* (x+0.5w, y+0.95h) and its cheeks at (x+0.25w, y+0.6h) and
\* (x+0.75w, y+0.6h), wherever the landmark is emitted.
C22_LandmarksAtSharedPositions ==
    (f_call # None /\ f_call[1].op = "landmarks") =>
        LET emitted == Emitted(f_call[1].service, f_out[1])
            claimed == ClaimedLandmarks(f_call[1].box)
        IN  \A name \in DOMAIN claimed :
                emitted[name] # None => emitted[name][1] = claimed[name]

----------------------------------------------------------------------------
(* C23: a failure inside a service yields the service's default report *)

\* A step of the service raises on this picture.  In analyze_skin that is
\* also the KeyError its result dict raises once both gates are passed.
ServiceFailed(op, picture) ==
    CASE op = "detect_faces"       -> ~picture.detect.cv_ok
      [] op = "analyze_skin"       ->
            \/ picture.skin.raises
            \/ /\ picture.skin.face_detected
               /\ ~insufficient_coverage(picture.skin.coverage)
               /\ FirstKeyError(HdItems(picture.skin.a)) # 0
      [] op = "analyze_features"   -> picture.features.raises
      [] op = "estimate_age"       -> picture.age.raises
      [] op = "analyze_expression" -> picture.expression.raises

\* The report a service returns from its except branch.
FailureDefault(op) ==
    IF op = "detect_faces" THEN detect_faces_failed ELSE NoFaceDefaults[op]

\* The five reports of a batch entry, by service.
EntryReports(analysis) ==
    [detect_faces       |-> analysis.face_detection,
     analyze_skin       |-> analysis.skin_analysis,
     analyze_features   |-> analysis.facial_features,
     estimate_age       |-> analysis.age_estimation,
     analyze_expression |-> analysis.expression_analysis]

\* Batch flow: every decoded image has an entry with the five reports, and
\* the report of a service that failed on it is that service's default.
BatchFailuresYieldDefaults ==
    endpoint = "batch" =>
        \A i \in 0..(loop_i - 1) :
            LET file == files[i + 1]
            IN  (~ItemRaises(file) /\ file.content_type[1][1] = "image") =>
                   LET picture == Decode(file.contents)[1]
                   IN  \E k \in 1..Len(results) :
                          /\ results[k].file_index = i
                          /\ DOMAIN results[k] = {"file_index", "filename", "analysis"}
                          /\ \A op \in Services :
                                ServiceFailed(op, picture) =>
                                   EntryReports(results[k].analysis)[op]
                                      = FailureDefault(op)

\* Comprehensive flow: every call made has returned a report, the default
\* when the service failed.
ComprehensiveFailuresYieldDefaults ==
    (endpoint = "comprehensive" /\ Len(files) = 1 /\ Decode(files[1].contents) # None) =>
        LET picture == Decode(files[1].contents)[1]
        IN  /\ (face_detection_result # None /\ ServiceFailed("detect_faces", picture)) =>
                   face_detection_result[1] = FailureDefault("detect_faces")
            /\ \A t \in started :
                   /\ task_result[t] # None
                   /\ ServiceFailed(t, picture) => task_result[t][1] = FailureDefault(t)

\* Comprehensive flow, past the gate: a failed analysis does not keep the
\* response from holding the four reports.
AnalysisFailureDoesNotBlock ==
    (/\ endpoint = "comprehensive" /\ pc = "done"
     /\ face_detection_result # None
     /\ ~no_face(face_detection_result[1])) =>
        /\ response # None /\ response[1].status = 200
        /\ \A t \in Analyses :
              SubReports(response[1].body)[t] = task_result[t][1]

\* Comprehensive flow: a failed face detection is reported as has_face
\* false and the gate rejects the request; no analysis is run.
DetectionFailureIsGated ==
    (/\ endpoint = "comprehensive" /\ pc = "done"
     /\ face_detection_result # None
     /\ face_detection_result[1] = detect_faces_failed) =>
        /\ response # None /\ response[1].status = 400
        /\ started = {}

\* C23 (as stated): no service propagates an exception, an internal
\* failure yields the service's default report, and in the batch and the
\* comprehensive flow the failure of one service never keeps the reports
\* of the other services from being assembled in the response.
C23_FailureNeverBlocksOtherServices ==
    /\ BatchFailuresYieldDefaults
    /\ ComprehensiveFailuresYieldDefaults
    /\ (/\ endpoint = "comprehensive" /\ pc = "done"
        /\ face_detection_result # None
        /\ \E op \in Services :
              ServiceFailed(op, Decode(files[1].contents)[1])) =>
           /\ response # None /\ response[1].status = 200
           /\ \A t \in Analyses :
                 /\ task_result[t] # None
                 /\ SubReports(response[1].body)[t] = task_result[t][1]

\* C23 (amended): no service propagates an exception and an internal
\* failure yields the service's default report; the failure of one of the
\* four analyses never keeps the other reports from being assembled, in
\* the batch flow the same holds of the face detection, and in the
\* comprehensive flow a failed face detection is rejected by the gate.
C23_FailuresYieldDefaultReports ==
    /\ BatchFailuresYieldDefaults
    /\ ComprehensiveFailuresYieldDefaults
    /\ AnalysisFailureDoesNotBlock
    /\ DetectionFailureIsGated

\* A batch has been answered with an entry that holds the defaults of the
\* four services that failed on the picture next to the computed report of
\* the expression analysis.
C23_Witness ==
    /\ endpoint = "batch" /\ pc = "done"
    /\ \E k \in 1..Len(results) :
          /\ "analysis" \in DOMAIN results[k]
          /\ results[k].filename = "faulty.png"
          /\ \A op \in Services \ {"analyze_expression"} :
                /\ ServiceFailed(op, Faulty)
                /\ EntryReports(results[k].analysis)[op] = FailureDefault(op)
          /\ results[k].analysis.expression_analysis
                = [expression_analysis |-> Faulty.expression.computed]

----------------------------------------------------------------------------
(* C24: the status of a validation failure *)

\* The request failed a validation for which its handler raises
\* HTTPException with status 400: an upload whose content type is not an
\* image type, or a batch of more than 10 files.
ValidationFailure ==
    \/ /\ endpoint \in DOMAIN SingleEndpoints \cup {"comprehensive"}
       /\ files[1].content_type # None
       /\ files[1].content_type[1][1] # "image"
    \/ /\ endpoint = "batch"
       /\ Len(files) > BatchLimit

\* C24: a request that fails a validation for which the handler raises
\* HTTPException(400) is answered with status 400: a non-image upload to a
\* single-analysis endpoint or to the comprehensive endpoint, and a batch
\* of more than 10 files.
C24_ValidationFailureAnsweredWith400 ==
    (pc = "done" /\ ValidationFailure) =>
        /\ response # None
        /\ response[1].status = 400

----------------------------------------------------------------------------
(* C25: the list of recommendations *)

\* C25: for every combination of estimator outputs the list returned by
\* _generate_recommendations has between 1 and 6 entries and includes the
\* sunscreen recommendation "Apply broad-spectrum SPF 30+ daily".
C25_RecommendationsIncludeSunscreen ==
    (s_call # None /\ s_call[1].op = "_generate_recommendations") =>
        /\ 1 <= Len(s_out[1]) /\ Len(s_out[1]) <= 6
        /\ \E i \in 1..Len(s_out[1]) :
              s_out[1][i] = "Apply broad-spectrum SPF 30+ daily"

----------------------------------------------------------------------------
(* C26: the comprehensive response and the gathered analyses *)

\* C26: in the comprehensive flow, past the gate, the response is assembled
\* only when all four gathered analyses have completed, and in whatever
\* order they ran its skin_analysis, facial_features, age_estimation and
\* expression_analysis fields hold the results of analyze_skin,
\* analyze_features, estimate_age and analyze_expression on the picture,
\* and its face_detection field the result the gate tested.
C26_ResponseHoldsEachGatheredResult ==
    (/\ endpoint = "comprehensive"
     /\ face_detection_result # None
     /\ ~no_face(face_detection_result[1])) =>
        LET picture == Decode(files[1].contents)[1]
        IN  /\ started # Analyses => (response = None /\ pc = "tasks")
            /\ response # None =>
                  LET body == response[1].body
                  IN  /\ response[1].status = 200
                      /\ \A t \in Analyses : task_result[t] # None
                      /\ body.skin_analysis = task_result["analyze_skin"][1]
                      /\ body.skin_analysis
                            \in {o.report : o \in analyze_skin(picture.skin)}
                      /\ body.facial_features = task_result["analyze_features"][1]
                      /\ body.facial_features = analyze_features(picture.features)
                      /\ body.age_estimation = task_result["estimate_age"][1]
                      /\ body.age_estimation \in estimate_age(picture.age)
                      /\ body.expression_analysis
                            = task_result["analyze_expression"][1]
                      /\ body.expression_analysis
                            = analyze_expression(picture.expression)
                      /\ body.face_detection = face_detection_result[1]
                      /\ body.face_detection = detect_faces(picture.detect)

\* A comprehensive request on the portrait has been answered: the four
\* fields hold four different computed reports.
C26_Witness ==
    /\ endpoint = "comprehensive" /\ pc = "done"
    /\ response # None /\ response[1].status = 200
    /\ files[1].contents = "portrait bytes"
    /\ started = Analyses
    /\ response[1].body.facial_features = [facial_features |-> Portrait.features.computed]
    /\ response[1].body.expression_analysis
          = [expression_analysis |-> Portrait.expression.computed]
    /\ response[1].body.age_estimation # _get_default_age_estimation
    /\ response[1].body.face_detection.face_detection.has_face

----------------------------------------------------------------------------
(* C27: the severity and the reported ui_score *)

\* C27: in every record returned by _create_skin_parameter the severity
\* agrees with the bands applied to the reported ui_score, the value after
\* rounding to one decimal: Low only if the reported ui_score is below 30,
\* High only if it is at least 70.
C27_SeverityAgreesWithReportedScore ==
    \A p \in s_params :
        /\ p[2].severity = "Low" => p[2].ui_score < 3000
        /\ p[2].severity = "High" => p[2].ui_score >= 7000

----------------------------------------------------------------------------
(* C28: the confidence of a detection *)

\* 0.6, 0.65, ..., 1.0
ConfidenceSteps == {6000 + 500 * k : k \in 0..8}

\* C28: whenever at least one face is detected the confidence is one of
\* 0.6, 0.65, ..., 1.0, so for exactly one face the message is never the
\* "low confidence" one; a confidence below 0.6 is 0 and comes with
\* has_face = false.
C28_DetectedFaceConfidenceAtLeast06 ==
    d_report # None =>
        LET fd == d_report[1].face_detection
        IN  /\ fd.has_face => fd.confidence \in ConfidenceSteps
            /\ fd.face_count = 1 =>
                  fd.message # "Face detected with low confidence"
            /\ fd.confidence < 6000 => (fd.confidence = 0 /\ ~fd.has_face)

\* One small face in a small, dark image: the lowest confidence a
\* detection gets, reported with the "good confidence" message.
C28_Witness ==
    /\ d_report # None
    /\ Len(d_image[1].faces) = 1
    /\ d_image[1].cv_ok
    /\ 20 * BoxArea(d_image[1].faces[1])
          <= d_image[1].width_height[1] * d_image[1].width_height[2]
    /\ d_image[1].brightness < 50
    /\ d_image[1].width_height[1] < 320
    /\ d_report[1].face_detection.confidence = 6000
    /\ d_report[1].face_detection.message = "Face detected with good confidence"

----------------------------------------------------------------------------
(* C29: the face shapes that are never returned *)

\* C29: for every face box FaceShapeAnalyzer.analyze returns neither
\* Square nor Diamond: the forehead / jawline width ratio, when both widths
\* are there, is 0.9w / 0.8w = 1.125, between the two refinement
\* thresholds, and Square and Diamond never beat the earlier Round and
\* Heart, whose range they share.
C29_NeverSquareOrDiamond ==
    (f_call # None /\ f_call[1].op = "FaceShapeAnalyzer.analyze") =>
        LET jawline_width  == _analyze_jawline_width(ShapeCall)
            forehead_width == _analyze_forehead_width(ShapeCall)
        IN  /\ ShapeOut.type \notin {"Square", "Diamond"}
            /\ (Truthy(jawline_width) /\ Truthy(forehead_width)) =>
                  /\ 1000 * forehead_width[1] = 1125 * jawline_width[1]
                  /\ (InRange("Square", ShapeCall.w, ShapeCall.h) /\ ShapeCall.bounds)
                        => ShapeOut.type \in {"Round", "Oval"}
                  /\ (InRange("Diamond", ShapeCall.w, ShapeCall.h) /\ ShapeCall.bounds)
                        => ShapeOut.type \in {"Heart", "Oval"}

\* A square face box with every landmark: in the range of Round and of
\* Square with confidence 1.0 for both, and reported as Round.
C29_Witness ==
    /\ f_call # None /\ f_call[1].op = "FaceShapeAnalyzer.analyze"
    /\ ShapeCall.bounds /\ ShapeCall.chin /\ ShapeCall.forehead
    /\ ShapeCall.w = 100 /\ ShapeCall.h = 100
    /\ InRange("Square", ShapeCall.w, ShapeCall.h)
    /\ RangeConfidence("Square", ShapeCall.w, ShapeCall.h) = Half * One
    /\ ShapeOut.type = "Round"
    /\ ShapeOut.confidence = One

----------------------------------------------------------------------------
(* C30: the weighted age for indicators in [0, 1] *)

\* The six indicator scores of an estimate_age call.
IndicatorScores(in) ==
    <<in.wrinkle_score, in.texture_score, in.eye_area_score,
      in.volume_score, in.hair_score, in.skin_tone_score>>

\* C30: when each of the six indicators lies in [0, 1] the weighted age is
\* in [25, 57], so neither clamp bound (18, 80) is applied and the age
\* group is neither "Young Adult (18-24)" nor "Elderly (65+)"; an age
\* below 25 requires a negative indicator.
C30_WeightedAgeWithin25And57 ==
    (a_in # None /\ a_in[1].face /\ ~a_in[1].raises) =>
        LET in     == a_in[1]
            scores == IndicatorScores(in)
            age    == _calculate_weighted_age(in.wrinkle_score, in.texture_score,
                          in.eye_area_score, in.volume_score, in.hair_score,
                          in.skin_tone_score)
            sum    == weighted_age(in.wrinkle_score, in.texture_score,
                          in.eye_area_score, in.volume_score, in.hair_score,
                          in.skin_tone_score)
            r      == a_report[1].age_estimation
        IN  /\ (\A i \in 1..6 : 0 <= scores[i] /\ scores[i] <= One) =>
                  /\ Years(25) <= age /\ age <= Years(57)
                  /\ age = sum
                  /\ Years(25) <= r.estimated_age /\ r.estimated_age <= Years(57)
                  /\ r.age_group \notin {"Young Adult (18-24)", "Elderly (65+)"}
            /\ age < Years(25) => \E i \in 1..6 : scores[i] < 0
            /\ r.age_group = "Young Adult (18-24)" => \E i \in 1..6 : scores[i] < 0

\* Every indicator is 1.0: the estimate is the upper end, 57 years, in the
\* group Senior (55-64).
C30_Witness ==
    /\ a_in # None /\ a_in[1].face /\ ~a_in[1].raises
    /\ \A i \in 1..6 : IndicatorScores(a_in[1])[i] = One
    /\ a_report[1].age_estimation.estimated_age = Years(57)
    /\ a_report[1].age_estimation.age_group = "Senior (55-64)"

====
